---- MODULE Spec2Model ----
(***************************************************************************)
(* Model of the media assembly pipeline of video-ai-creator:               *)
(*   - VideoWorkflow.generate_video / generate_video_with_subtitles        *)
(*     (src/main.py), the stage sequencing, error escape and cleanup;      *)
(*   - VideoCreator.create_video and its visual-track builders             *)
(*     (src/video_creator.py);                                             *)
(*   - VoiceGenerator: text chunking, long-voice synthesis, the speed      *)
(*     adjustment and _combine_audio_files (src/voice_generator.py);       *)
(*   - SubtitleGenerator: sentence splitting and cue timing                *)
(*     (src/subtitle_generator.py);                                        *)
(*   - the temp-file cleanup functions of the components.                  *)
(* Durations are exact: whole ticks for audio and clip lengths, rationals  *)
(* [num, den] where the code divides.                                      *)
(***************************************************************************)
EXTENDS Integers, Sequences, FiniteSets, TLC

VARIABLES
    \* ---- VideoWorkflow (src/main.py) ----
    entry,            \* which public method was invoked
    theme,            \* the theme argument, a sequence of characters
    skip_cleanup,     \* generate_video(skip_cleanup=...)
    custom_script,    \* the custom_script argument ("" stands for None / empty)
    upload_to_youtube,\* generate_video_with_subtitles(upload_to_youtube=...)
    thumbnail_text,   \* generate_video_with_subtitles(thumbnail_text=...)
    pc,               \* position of the workflow
    calls,            \* collaborator invocations so far, in order
    script_data,      \* the script_data dict of generate_video
    basic_result,     \* the result dict of generate_video
    result,           \* the result dict of generate_video_with_subtitles
    cleanups,         \* number of _cleanup_temp_files executions
    outcome,          \* "running", "returned", "ValueError", "RuntimeError"
    failed_at,        \* the stage whose call raised, or None
    cause,            \* why it raised: "external" (the collaborator's
                      \* environment failed) or the Python error of the code
    narration,        \* duration of the synthesized narration (ticks)
    rendered,         \* duration of the video create_video rendered (ticks)
    progress,         \* the percents _update_progress delivered, in order
    output_filename,  \* the output_filename argument, or None
    output_dir,       \* config.output_dir
    saved_files,      \* the files the run saved and did not remove
    srt_cues,         \* the cues written to the caption file
    \* ---- VideoCreator (src/video_creator.py) ----
    vc_pc,            \* position inside create_video
    vc_in,            \* arguments and environment of the create_video call
    actual_duration,  \* create_video's actual_duration
    builder,          \* which builder was called and with which duration
    loop,             \* _loop_video's clips and current_duration
    video_clip,       \* the visual track returned by the builder
    audio_trim,       \* the end of audio_clip.subclip(0, .)
    vc_error,         \* the error that ended the call (without the context
                      \* the except clauses add), or None
    handles,          \* audio_clip, video_clip, final_clip: none, open, closed
    output_file,      \* the file at output_path
    render,           \* what happened inside _render_video
    vc_raised,        \* the message of the error the call raised, or None
    vc_failure,       \* the failure that reached create_video's except clause
    \* ---- Config (src/config.py) ----
    target_duration,  \* config.video_duration, VideoCreator.target_duration
    \* ---- VoiceGenerator (src/voice_generator.py) ----
    script,           \* generate_long_voice(script, ...), a character sequence
    max_chunk_chars,  \* generate_long_voice(max_chunk_chars=...)
    vg_pc,            \* position inside generate_long_voice
    sentences,        \* _split_text_for_voice: the sentences still to place
    current_chunk,    \* _split_text_for_voice: current_chunk
    chunks,           \* _split_text_for_voice: chunks, then text_chunks
    temp_audio_files, \* the chunks synthesized so far (their indices)
    gv_failure,       \* what went wrong inside generate_voice, and at which chunk
    gv_raised,        \* the message of the error generate_voice raised, or None
    vg_raised,        \* the message of the error generate_long_voice raised
    combined,         \* the chunk indices of the track returned, <<>> if none
    \* ---- SubtitleGenerator (src/subtitle_generator.py) ----
    st_sentences,     \* _calculate_subtitle_timing(sentences, ...)
    total_duration,   \* _calculate_subtitle_timing(..., total_duration)
    st_pc,            \* position inside _calculate_subtitle_timing
    st_i,             \* index of the next sentence of the for-loop
    current_time,     \* current_time
    subtitle_entries, \* subtitle_entries, then the list returned
    \* ---- the temp directory shared by workflow runs (config.temp_dir) ----
    run_pc,           \* position of each workflow run
    temp_files,       \* the files in config.temp_dir: name prefix and creator
    removed,          \* the files removed so far, and the run that removed them
    \* ---- SubtitleGenerator._split_text_into_sentences ----
    ss_text,          \* _split_text_into_sentences(text), a character sequence
    ss_pc,            \* position inside _split_text_into_sentences
    ss_sentences,     \* the list returned
    \* ---- VoiceGenerator._combine_audio_files ----
    audio_files,      \* _combine_audio_files(audio_files, ...): format and frame count
    ca_pc,            \* position inside _combine_audio_files
    ca_i,             \* index of the next file of the for-loop
    output_wav,       \* the file at output_path: format and frames
    ca_raised,        \* the message of the error raised, or None
    \* ---- VoiceGenerator._synthesize_voice ----
    audio_query,      \* _synthesize_voice(audio_query, ...): moras and speedScale
    sy_custom,        \* _synthesize_voice(..., is_custom_script)
    sy_caller,        \* generate_voice called by the workflow or by generate_long_voice
    sy_pc,            \* position inside _synthesize_voice
    posted            \* the speedScale of the query posted to the engine

wfvars == <<entry, theme, skip_cleanup, custom_script, upload_to_youtube,
            thumbnail_text, pc, calls, script_data, basic_result, result,
            cleanups, outcome, failed_at, cause, narration, rendered,
            progress, output_filename, output_dir,
            saved_files, srt_cues>>

vcvars == <<vc_pc, vc_in, actual_duration, builder, loop, video_clip,
            audio_trim, vc_error, handles, output_file, render, vc_raised,
            vc_failure>>

vgvars == <<script, max_chunk_chars, vg_pc, sentences, current_chunk, chunks,
            temp_audio_files, gv_failure, gv_raised, vg_raised, combined>>

stvars == <<st_sentences, total_duration, st_pc, st_i, current_time,
            subtitle_entries>>

tdvars == <<run_pc, temp_files, removed>>

ssvars == <<ss_text, ss_pc, ss_sentences>>

cavars == <<audio_files, ca_pc, ca_i, output_wav, ca_raised>>

syvars == <<audio_query, sy_custom, sy_caller, sy_pc, posted>>

vars == <<wfvars, vcvars, target_duration, vgvars, stvars, tdvars,
         ssvars,
         cavars,
         syvars>>

(***************************************************************************)
(* Bounds of the model.                                                    *)
(***************************************************************************)
MaxAudio == 5
MaxCap == 2
MaxImages == 3
MaxVideos == 2
MaxClip == 2
\* images passed along with a non-empty videos list
MaxImagesWithVideos == 1

None == "None"

\* the name prefixes the cleanup functions look for
ImagePrefix == "image_"
VoicePrefix == "voice_"
VideoPrefix == "video_"
ThumbnailPrefix == "thumbnail_"

Min(a, b) == IF a <= b THEN a ELSE b

(***************************************************************************)
(* Duration Reconciler: create_video's actual_duration.                    *)
(***************************************************************************)
EffectiveAlwaysCapped(A, C, is_custom_script) == Min(A, C)

EffectiveDuration(A, C, is_custom_script) ==
    IF is_custom_script THEN A ELSE Min(A, C)

(***************************************************************************)
(* str.strip() on a sequence of characters, and the theme guard.           *)
(***************************************************************************)
RECURSIVE LStrip(_)
LStrip(s) ==
    IF s = <<>> THEN <<>>
    ELSE IF Head(s) = " " THEN LStrip(Tail(s)) ELSE s

RECURSIVE RStrip(_)
RStrip(s) ==
    IF s = <<>> THEN <<>>
    ELSE IF s[Len(s)] = " " THEN RStrip(SubSeq(s, 1, Len(s) - 1)) ELSE s

Strip(s) == RStrip(LStrip(s))

\* str.lower() on the letters the messages are written with
LowerChar(c) ==
    CASE c = "A" -> "a" [] c = "B" -> "b" [] c = "C" -> "c" [] c = "D" -> "d"
      [] c = "E" -> "e" [] c = "F" -> "f" [] c = "G" -> "g" [] c = "H" -> "h"
      [] c = "I" -> "i" [] c = "J" -> "j" [] c = "K" -> "k" [] c = "L" -> "l"
      [] c = "M" -> "m" [] c = "N" -> "n" [] c = "O" -> "o" [] c = "P" -> "p"
      [] c = "Q" -> "q" [] c = "R" -> "r" [] c = "S" -> "s" [] c = "T" -> "t"
      [] c = "U" -> "u" [] c = "V" -> "v" [] c = "W" -> "w" [] c = "X" -> "x"
      [] c = "Y" -> "y" [] c = "Z" -> "z" [] OTHER -> c

RECURSIVE Lower(_)
Lower(s) ==
    IF s = "" THEN ""
    ELSE LowerChar(SubSeq(s, 1, 1)) \o Lower(SubSeq(s, 2, Len(s)))

\* needle in s
Contains(s, needle) ==
    \E i \in 1..(Len(s) - Len(needle) + 1) :
        SubSeq(s, i, i + Len(needle) - 1) = needle

ThemeValid(t) == t # <<>> /\ Strip(t) # <<>>

Themes == { <<>>, <<" ">>, <<"A", "I">> }

(***************************************************************************)
(* The workflow's dictionaries.                                            *)
(***************************************************************************)
EmptyBasic ==
    [success |-> FALSE, output_path |-> None, steps |-> {}, errors |-> <<>>]

EmptyResult ==
    [success |-> FALSE, output_path |-> None, subtitle_path |-> None,
     youtube_url |-> None, steps |-> {}, youtube_upload |-> "absent",
     errors |-> <<>>]

NoScript == [keywords |-> None, custom |-> FALSE]

VcIdle ==
    [call |-> None, audio |-> 0, custom |-> FALSE, images |-> <<>>,
     videos |-> <<>>]

NoTrack ==
    [strategy |-> None, segments |-> <<>>, duration |-> [num |-> 0, den |-> 1]]

NoLoop == [clip |-> 0, clips |-> <<>>, current_duration |-> 0]

NoBuilder == [name |-> None, duration |-> 0]

NoHandles ==
    [audio_clip |-> "none", video_clip |-> "none", final_clip |-> "none"]

NoFile == [exists |-> FALSE, size |-> 0]

NoVideoFailure == [cause |-> None, message |-> ""]

NoRender ==
    [outcome |-> "not called", write |-> NoVideoFailure, written |-> NoFile,
     remove_failed |-> FALSE]

(***************************************************************************)
(* VideoWorkflow: error escape hatches and cleanup.                        *)
(***************************************************************************)
GvwsEntry == "generate_video_with_subtitles"
GvEntry == "generate_video"

\* generate_video_with_subtitles calls generate_video(..., skip_cleanup=True)
SkipCleanupArg == IF entry = GvwsEntry THEN TRUE ELSE skip_cleanup

GvExceptNoCleanup(b, n) ==
    [basic |-> [b EXCEPT !.errors = Append(@, "video_generation_error")],
     cleanups |-> n, outcome |-> "RuntimeError"]

\* except-block of generate_video: record the error, clean up, re-raise
GvExcept(b, n) ==
    [basic |-> [b EXCEPT !.errors = Append(@, "video_generation_error")],
     cleanups |-> n + 1, outcome |-> "RuntimeError"]

GvwsExceptReturns(r, n) ==
    [result |-> [r EXCEPT !.errors = Append(@, "subtitled_video_generation_error"),
                          !.success = TRUE],
     cleanups |-> n + 1, outcome |-> "returned"]

\* except-block of generate_video_with_subtitles
GvwsExcept(r, n) ==
    [result |-> [r EXCEPT !.errors = Append(@, "subtitled_video_generation_error")],
     cleanups |-> n + 1, outcome |-> "RuntimeError"]

\* an exception raised inside generate_video's try block; when the caller is
\* generate_video_with_subtitles its except-block handles the re-raised error
RaiseInGenerateVideo(stage, why) ==
    LET h == GvExcept(basic_result, cleanups)
        o == GvwsExcept(result, h.cleanups)
    IN  /\ basic_result' = h.basic
        /\ failed_at' = stage
        /\ cause' = why
        /\ IF entry = GvwsEntry
           THEN result' = o.result /\ cleanups' = o.cleanups
                /\ outcome' = o.outcome
           ELSE result' = result /\ cleanups' = h.cleanups
                /\ outcome' = h.outcome
        /\ pc' = "done"

\* an exception raised inside generate_video_with_subtitles' own try block
RaiseInWithSubtitles(stage, why) ==
    LET o == GvwsExcept(result, cleanups)
    IN  /\ result' = o.result
        /\ cleanups' = o.cleanups
        /\ failed_at' = stage
        /\ cause' = why
        /\ outcome' = o.outcome
        /\ pc' = "done"

Call(fn, arg) == [fn |-> fn, arg |-> arg]

BoolStr(b) == IF b THEN "True" ELSE "False"

GvNextVoiceFirst(stage) ==
    CASE stage = "theme_validation" -> "config_validation"
      [] stage = "config_validation" -> "script_generation"
      [] stage = "script_generation" -> "voice_generation"
      [] stage = "voice_generation" -> "image_fetching"
      [] stage = "image_fetching" -> "video_creation"
      [] stage = "video_creation" -> "completion"

\* the textual order of the stages in generate_video's try block
GvNext(stage) ==
    CASE stage = "theme_validation" -> "config_validation"
      [] stage = "config_validation" -> "script_generation"
      [] stage = "script_generation" -> "image_fetching"
      [] stage = "image_fetching" -> "voice_generation"
      [] stage = "voice_generation" -> "video_creation"
      [] stage = "video_creation" -> "completion"

StepDone(b, step) == [b EXCEPT !.steps = @ \cup {step}]

\* self._update_progress(step, percent, message), once per percent
UpdateProgress(percents) == progress' = progress \o percents

wfinputs == <<entry, theme, skip_cleanup, custom_script, upload_to_youtube,
              thumbnail_text, target_duration, output_filename, output_dir>>

(***************************************************************************)
(* The files a run saves, and the files _cleanup_temp_files removes.       *)
(***************************************************************************)
\* config.temp_dir
TempDir == "./temp"

\* the values of config.output_dir: its default, and the temp directory
OutputDirs == {"./output", TempDir}

\* the output_filename arguments of a run
OutputFilenames == {None, "out.mp4", "video_1.mp4"}

\* os.path.join("output", "subtitles")
SubtitleDir == "output/subtitles"

File(dir, name) == [dir |-> dir, name |-> name]

\* str.startswith and str.endswith
StartsWith(s, prefix) ==
    /\ Len(s) >= Len(prefix)
    /\ SubSeq(s, 1, Len(prefix)) = prefix

EndsWith(s, suffix) ==
    /\ Len(s) >= Len(suffix)
    /\ SubSeq(s, Len(s) - Len(suffix) + 1, Len(s)) = suffix

RECURSIVE JoinChars(_)
JoinChars(chars) ==
    IF chars = <<>> THEN "" ELSE Head(chars) \o JoinChars(Tail(chars))

\* the characters of the theme that are alphanumeric or one of "- _"; every
\* character of Themes is
CleanTheme(t) == JoinChars(t)

\* f"{clean_theme}_{timestamp}.mp4" when no output_filename was given
VideoFilename ==
    IF output_filename = None
    THEN CleanTheme(theme) \o "_" \o "timestamp" \o ".mp4"
    ELSE output_filename

\* os.path.splitext(name)[0] of a name that ends with ".mp4"
BaseName(name) == SubSeq(name, 1, Len(name) - 4)

SubtitledFilename == BaseName(VideoFilename) \o "_with_subtitles.mp4"

ImageFile == File(TempDir, ImagePrefix \o "1_id.jpg")
VoiceFile == File(TempDir, VoicePrefix \o "timestamp.wav")
ThumbnailFile == File(TempDir, ThumbnailPrefix \o "timestamp.jpg")
SubtitleFile == File(SubtitleDir, "subtitles.srt")
BaseVideoFile == File(output_dir, VideoFilename)
SubtitledVideoFile == File(output_dir, SubtitledFilename)

\* the file names the four cleanup functions look for in the temp directory
IsTempName(name) ==
    \/ StartsWith(name, ImagePrefix) /\ EndsWith(name, ".jpg")
    \/ StartsWith(name, VoicePrefix) /\ EndsWith(name, ".wav")
    \/ /\ StartsWith(name, VideoPrefix)
       /\ \E ext \in {".mp4", ".mov", ".avi"} : EndsWith(name, ext)
    \/ /\ StartsWith(name, ThumbnailPrefix)
       /\ \E ext \in {".jpg", ".jpeg", ".png"} : EndsWith(name, ext)

\* _cleanup_temp_files: every cleanup function lists config.temp_dir and
\* removes the files with its names
CleanupTempFiles(fs) == {f \in fs : ~(f.dir = TempDir /\ IsTempName(f.name))}

\* the file a stage saves when it succeeds
StageFile(stage) ==
    CASE stage = "image_fetching" -> {ImageFile}
      [] stage = "voice_generation" -> {VoiceFile}
      [] stage = "video_creation" -> {BaseVideoFile}
      [] stage = "subtitle_generation" -> {SubtitleFile}
      [] stage = "subtitle_embedding" -> {SubtitledVideoFile}
      [] OTHER -> {}

StepsDone(b, r) == b.steps \cup r.steps

ThumbnailCalls(cs) ==
    {i \in 1..Len(cs) : cs[i].fn = "thumbnail_generator.generate_thumbnail"}

\* the files of the stages this step completed and of the thumbnail it made,
\* less what a cleanup inside the step removed
SaveAndCleanup ==
    LET saved ==
            UNION {StageFile(stage) :
                     stage \in StepsDone(basic_result', result')
                               \ StepsDone(basic_result, result)}
        thumbnail ==
            IF ThumbnailCalls(calls') # ThumbnailCalls(calls)
            THEN {ThumbnailFile}
            ELSE {}
        fs == saved_files \cup saved \cup thumbnail
    IN  saved_files' = IF cleanups' # cleanups THEN CleanupTempFiles(fs) ELSE fs

(***************************************************************************)
(* Exact rational arithmetic for "duration / len(images)".                 *)
(***************************************************************************)
RECURSIVE Gcd(_, _)
Gcd(a, b) == IF b = 0 THEN a ELSE Gcd(b, a % b)

\* n / d in lowest terms, d > 0, n >= 0
Rat(n, d) == [num |-> n \div Gcd(n, d), den |-> d \div Gcd(n, d)]

RatAdd(a, b) == Rat(a.num * b.den + b.num * a.den, a.den * b.den)

\* a - b for a >= b
RatSub(a, b) == Rat(a.num * b.den - b.num * a.den, a.den * b.den)

RatLess(a, b) == a.num * b.den < b.num * a.den

(***************************************************************************)
(* The arithmetic of SubtitleGenerator._calculate_subtitle_timing and the  *)
(* whole function, as generate_subtitles uses it.                          *)
(***************************************************************************)
\* the minimum display time of a cue, in seconds
MinCueSeconds == 1

RatMax(a, b) == IF RatLess(a, b) THEN b ELSE a

RatMin(a, b) == IF RatLess(b, a) THEN b ELSE a

\* sum(len(sentence) for sentence in sentences)
RECURSIVE TotalChars(_)
TotalChars(ss) == IF ss = <<>> THEN 0 ELSE Len(Head(ss)) + TotalChars(Tail(ss))

SentenceDurationProportional(sentence, total_chars, T) ==
    Rat(Len(sentence) * T.num, total_chars * T.den)

\* sentence_duration: the share of the sentence, at least one second
SentenceDuration(sentence, total_chars, T) ==
    RatMax(Rat(Len(sentence) * T.num, total_chars * T.den),
           Rat(MinCueSeconds, 1))

EndTimeUnclamped(start_time, sentence_duration, T) ==
    RatAdd(start_time, sentence_duration)

\* end_time = min(current_time + sentence_duration, total_duration)
EndTime(start_time, sentence_duration, T) ==
    RatMin(RatAdd(start_time, sentence_duration), T)

\* the cues of the for-loop from the i-th sentence on; the loop ends with the
\* break or after the last sentence
RECURSIVE SubtitleEntriesFrom(_, _, _, _)
SubtitleEntriesFrom(ss, i, start_time, T) ==
    IF i > Len(ss) THEN <<>>
    ELSE LET sentence_duration ==
                 SentenceDuration(ss[i], TotalChars(ss), T)
             end_time == EndTime(start_time, sentence_duration, T)
         IN  <<[start |-> start_time, end |-> end_time, text |-> ss[i]]>>
             \o (IF ~RatLess(end_time, T) THEN <<>>
                 ELSE SubtitleEntriesFrom(ss, i + 1, end_time, T))

\* _calculate_subtitle_timing(sentences, total_duration)
CalculateSubtitleTiming(ss, T) ==
    IF ss = <<>> THEN <<>>
    ELSE SubtitleEntriesFrom(ss, 1, Rat(0, 1), T)

\* "audio_duration = 30.0" when ffprobe fails or its output cannot be parsed
DefaultAudioDuration == 30

\* the duration generate_subtitles reads from the narration file
AudioDuration(probed, A) ==
    IF probed THEN Rat(A, 1) ELSE Rat(DefaultAudioDuration, 1)

\* the sentences _split_text_into_sentences returns for the script of a run
ScriptSentences == { <<"abcdef">>, <<"ab", "abc">> }

(***************************************************************************)
(* generate_video                                                          *)
(***************************************************************************)
\* theme guard of both public methods; it raises before the try block
ValidateTheme ==
    /\ pc = "theme_validation"
    /\ IF ThemeValid(theme)
       THEN pc' = GvNext("theme_validation") /\ outcome' = outcome
       ELSE pc' = "done" /\ outcome' = "ValueError"
    /\ UNCHANGED <<wfinputs, calls, script_data, basic_result, result,
                   cleanups, failed_at, cause, narration, rendered, progress,
                   vcvars,
                   vgvars, stvars, tdvars, ssvars, cavars, syvars>>
    /\ srt_cues' = srt_cues
    /\ SaveAndCleanup

\* step 1: self.config.validate()
ConfigValidation ==
    /\ pc = "config_validation"
    /\ calls' = Append(calls, Call("config.validate", None))
    /\ UpdateProgress(<<0>>)
    /\ \E ok \in BOOLEAN :
         IF ok
         THEN /\ basic_result' = StepDone(basic_result, "config_validation")
              /\ pc' = GvNext("config_validation")
              /\ UNCHANGED <<result, cleanups, outcome, failed_at, cause>>
         ELSE RaiseInGenerateVideo("config_validation", "external")
    /\ UNCHANGED <<wfinputs, script_data, narration, rendered, vcvars,
                   vgvars, stvars, tdvars, ssvars, cavars, syvars>>
    /\ srt_cues' = srt_cues
    /\ SaveAndCleanup

\* step 2: the custom script is taken as is, else the generator is called
ScriptGeneration ==
    /\ pc = "script_generation"
    /\ IF custom_script # ""
       THEN /\ script_data' = [keywords |-> "list", custom |-> TRUE]
            /\ basic_result' = StepDone(basic_result, "script_generation")
            /\ pc' = GvNext("script_generation")
            /\ UpdateProgress(<<10, 25>>)
            /\ UNCHANGED <<calls, result, cleanups, outcome, failed_at, cause>>
       ELSE /\ calls' = Append(calls, Call("script_generator.generate_script", None))
            /\ \E ok \in BOOLEAN :
                 IF ok
                 THEN /\ script_data' = [keywords |-> "str", custom |-> FALSE]
                      /\ basic_result' = StepDone(basic_result, "script_generation")
                      /\ pc' = GvNext("script_generation")
                      /\ UpdateProgress(<<10, 25>>)
                      /\ UNCHANGED <<result, cleanups, outcome, failed_at, cause>>
                 ELSE /\ script_data' = script_data
                      /\ UpdateProgress(<<10>>)
                      /\ RaiseInGenerateVideo("script_generation", "external")
    /\ UNCHANGED <<wfinputs, narration, rendered, vcvars, vgvars, stvars, tdvars, ssvars,
                   cavars, syvars>>
    /\ srt_cues' = srt_cues
    /\ SaveAndCleanup

ProcessKeywordsAnyType(keywords) == "ok"

\* ImageFetcher._process_keywords: keywords.split(',') exists on str only
ProcessKeywords(keywords) ==
    IF keywords = "list" THEN "AttributeError" ELSE "ok"

\* ImageFetcher.fetch_images: any exception of its body is re-raised by
\* _handle_fetch_error; the value is "ok" or what made the call raise
FetchImages(keywords, search_ok) ==
    IF ProcessKeywords(keywords) # "ok" THEN ProcessKeywords(keywords)
    ELSE IF search_ok THEN "ok" ELSE "external"

\* step 3: self.image_fetcher.fetch_images(script_data['keywords'], ...)
ImageFetching ==
    /\ pc = "image_fetching"
    /\ calls' = Append(calls, Call("image_fetcher.fetch_images", script_data.keywords))
    /\ \E search_ok \in BOOLEAN :
         IF FetchImages(script_data.keywords, search_ok) = "ok"
         THEN /\ basic_result' = StepDone(basic_result, "image_fetching")
              /\ pc' = GvNext("image_fetching")
              /\ UpdateProgress(<<30, 50>>)
              /\ UNCHANGED <<result, cleanups, outcome, failed_at, cause>>
         ELSE /\ UpdateProgress(<<30>>)
              /\ RaiseInGenerateVideo("image_fetching",
                                      FetchImages(script_data.keywords,
                                                  search_ok))
    /\ UNCHANGED <<wfinputs, script_data, narration, rendered, vcvars,
                   vgvars, stvars, tdvars, ssvars, cavars, syvars>>
    /\ srt_cues' = srt_cues
    /\ SaveAndCleanup

\* step 4: self.voice_generator.generate_voice(script, is_custom_script=...)
VoiceGeneration ==
    /\ pc = "voice_generation"
    /\ calls' = Append(calls, Call("voice_generator.generate_voice",
                                   BoolStr(script_data.custom)))
    /\ \E ok \in BOOLEAN, A \in 1..MaxAudio :
         IF ok
         THEN /\ narration' = A
              /\ basic_result' = StepDone(basic_result, "voice_generation")
              /\ pc' = GvNext("voice_generation")
              /\ UpdateProgress(<<55, 75>>)
              /\ UNCHANGED <<result, cleanups, outcome, failed_at, cause>>
         ELSE /\ narration' = narration
              /\ UpdateProgress(<<55>>)
              /\ RaiseInGenerateVideo("voice_generation", "external")
    /\ UNCHANGED <<wfinputs, script_data, rendered, vcvars, vgvars, stvars, tdvars, ssvars,
                   cavars, syvars>>
    /\ srt_cues' = srt_cues
    /\ SaveAndCleanup

\* step 5: self.video_creator.create_video(images, audio_path, ..., is_custom_script=...)
VideoCreation ==
    /\ pc = "video_creation"
    /\ calls' = Append(calls, Call("video_creator.create_video",
                                   BoolStr(script_data.custom)))
    /\ \E ok \in BOOLEAN :
         IF ok
         THEN /\ rendered' = EffectiveDuration(narration, target_duration,
                                               script_data.custom)
              /\ basic_result' = StepDone(basic_result, "video_creation")
              /\ pc' = GvNext("video_creation")
              /\ UpdateProgress(<<80, 95>>)
              /\ UNCHANGED <<result, cleanups, outcome, failed_at, cause>>
         ELSE /\ rendered' = rendered
              /\ UpdateProgress(<<80>>)
              /\ RaiseInGenerateVideo("video_creation", "external")
    /\ UNCHANGED <<wfinputs, script_data, narration, vcvars, vgvars, stvars, tdvars, ssvars,
                   cavars, syvars>>
    /\ srt_cues' = srt_cues
    /\ SaveAndCleanup

CleanupUnlessSkippedNever(skip, n) == n

\* "if not skip_cleanup: self._cleanup_temp_files()"
CleanupUnlessSkipped(skip, n) == IF skip THEN n ELSE n + 1

\* step 6 and the return of generate_video; for the subtitled workflow the
\* caller's check of basic_result['success'] follows at once
Completion ==
    /\ pc = "completion"
    /\ LET b == [basic_result EXCEPT !.success = TRUE,
                                     !.output_path = "video_path"]
       IN  /\ basic_result' = b
           /\ cleanups' = CleanupUnlessSkipped(SkipCleanupArg, cleanups)
           /\ UpdateProgress(<<98, 100>>)
           /\ IF entry = GvEntry
              THEN /\ outcome' = "returned"
                   /\ pc' = "done"
                   /\ result' = result
              ELSE IF ~b.success
              THEN /\ outcome' = "returned"
                   /\ pc' = "done"
                   /\ result' = [result EXCEPT !.errors = @ \o b.errors]
              ELSE /\ outcome' = outcome
                   /\ pc' = "subtitle_generation"
                   /\ result' = result
    /\ UNCHANGED <<wfinputs, calls, script_data, failed_at, cause, narration,
                   rendered, vcvars, vgvars, stvars, tdvars, ssvars, cavars,
                   syvars>>
    /\ srt_cues' = srt_cues
    /\ SaveAndCleanup

(***************************************************************************)
(* generate_video_with_subtitles, after the basic video                    *)
(***************************************************************************)
\* step 6: self.subtitle_generator.generate_subtitles(script, audio_path)
SubtitleGeneration ==
    /\ pc = "subtitle_generation"
    /\ calls' = Append(calls, Call("subtitle_generator.generate_subtitles", None))
    /\ UpdateProgress(<<85>>)
    /\ \E ok \in BOOLEAN, probed \in BOOLEAN, split \in ScriptSentences :
         IF ok
         THEN /\ srt_cues' =
                    CalculateSubtitleTiming(split,
                                            AudioDuration(probed, narration))
              /\ result' = StepDone(result, "subtitle_generation")
              /\ pc' = "subtitle_embedding"
              /\ UNCHANGED <<cleanups, outcome, failed_at, cause>>
         ELSE /\ srt_cues' = srt_cues
              /\ RaiseInWithSubtitles("subtitle_generation", "external")
    /\ UNCHANGED <<wfinputs, script_data, basic_result, narration, rendered,
                   vcvars, vgvars, stvars, tdvars, ssvars, cavars, syvars>>
    /\ SaveAndCleanup

\* step 7: self.subtitle_generator.add_subtitles_to_video(...)
SubtitleEmbedding ==
    /\ pc = "subtitle_embedding"
    /\ calls' = Append(calls, Call("subtitle_generator.add_subtitles_to_video", None))
    /\ \E ok \in BOOLEAN :
         IF ok
         THEN /\ result' = [StepDone(result, "subtitle_embedding") EXCEPT
                              !.output_path = "subtitled_video_path",
                              !.subtitle_path = "subtitle_path"]
              /\ pc' = IF upload_to_youtube THEN "youtube_upload" ELSE "finalize"
              /\ UpdateProgress(<<90, 95>>)
              /\ UNCHANGED <<cleanups, outcome, failed_at, cause>>
         ELSE /\ UpdateProgress(<<90>>)
              /\ RaiseInWithSubtitles("subtitle_embedding", "external")
    /\ UNCHANGED <<wfinputs, script_data, basic_result, narration, rendered,
                   vcvars, vgvars, stvars, tdvars, ssvars, cavars, syvars>>
    /\ srt_cues' = srt_cues
    /\ SaveAndCleanup

\* positional parameters YouTubeUploader.upload_video accepts besides self
UploadVideoParams == 5

\* positional arguments generate_video_with_subtitles passes to upload_video
UploadVideoArgs == 7

\* binding the call's arguments to the method's parameters
BindUploadVideo ==
    IF UploadVideoArgs > UploadVideoParams THEN "TypeError" ELSE "ok"

\* the calls of the upload branch once authentication succeeded
UploadCalls ==
    (IF thumbnail_text # None
     THEN << Call("thumbnail_generator.generate_thumbnail", None) >>
     ELSE << >>)
    \o << Call("youtube_uploader.upload_video", None) >>

\* "if thumbnail_text:" _update_progress(..., 96, ...)
ThumbnailProgress == IF thumbnail_text # None THEN <<96>> ELSE <<>>

\* step 8: authenticate, optional thumbnail, upload_video
YoutubeUpload ==
    /\ pc = "youtube_upload"
    /\ \E authenticated \in BOOLEAN, youtube_url \in {None, "url"} :
         IF ~authenticated
         THEN /\ calls' = Append(calls, Call("youtube_uploader.authenticate", None))
              /\ result' = [result EXCEPT
                              !.errors = Append(@, "youtube_authentication_failed"),
                              !.youtube_url = None]
              /\ pc' = "finalize"
              /\ UpdateProgress(<<96>>)
              /\ UNCHANGED <<cleanups, outcome, failed_at, cause>>
         ELSE /\ calls' = Append(calls, Call("youtube_uploader.authenticate", None))
                            \o UploadCalls
              /\ IF BindUploadVideo # "ok"
                 THEN /\ UpdateProgress(<<96>> \o ThumbnailProgress \o <<97>>)
                      /\ RaiseInWithSubtitles("youtube_upload",
                                              BindUploadVideo)
                 ELSE /\ UpdateProgress(<<96>> \o ThumbnailProgress \o <<97>>
                                        \o (IF youtube_url # None
                                            THEN <<99>> ELSE <<>>))
                      /\ result' = [result EXCEPT
                              !.youtube_upload = BoolStr(youtube_url # None),
                              !.youtube_url = youtube_url,
                              !.errors = IF youtube_url # None THEN @
                                         ELSE Append(@, "youtube_upload_failed")]
                      /\ pc' = "finalize"
                      /\ UNCHANGED <<cleanups, outcome, failed_at, cause>>
    /\ UNCHANGED <<wfinputs, script_data, basic_result, narration, rendered,
                   vcvars, vgvars, stvars, tdvars, ssvars, cavars, syvars>>
    /\ srt_cues' = srt_cues
    /\ SaveAndCleanup

\* "result['success'] = True", cleanup, return
Finalize ==
    /\ pc = "finalize"
    /\ result' = [result EXCEPT !.success = TRUE]
    /\ cleanups' = cleanups + 1
    /\ UpdateProgress(<<100>>)
    /\ outcome' = "returned"
    /\ pc' = "done"
    /\ UNCHANGED <<wfinputs, calls, script_data, basic_result, failed_at, cause,
                   narration, rendered, vcvars, vgvars, stvars, tdvars,
                   ssvars, cavars, syvars>>
    /\ srt_cues' = srt_cues
    /\ SaveAndCleanup

(***************************************************************************)
(* The workflow specification.                                             *)
(***************************************************************************)
\* generate_voice has not failed
NoFailure == [at |-> None, cause |-> None, message |-> ""]

\* no call of the VoiceGenerator is in progress
VgInitIdle ==
    /\ script = <<>>
    /\ max_chunk_chars = 0
    /\ vg_pc = "idle"
    /\ sentences = <<>>
    /\ current_chunk = <<>>
    /\ chunks = <<>>
    /\ temp_audio_files = <<>>
    /\ gv_failure = [chunk |-> 0] @@ NoFailure
    /\ gv_raised = None
    /\ vg_raised = None
    /\ combined = <<>>

\* no call of the SubtitleGenerator is in progress
StInitIdle ==
    /\ st_sentences = <<>>
    /\ total_duration = 0
    /\ st_pc = "idle"
    /\ st_i = 0
    /\ current_time = 0
    /\ subtitle_entries = <<>>

TdInitIdle ==
    /\ run_pc = <<>>
    /\ temp_files = {}
    /\ removed = {}

SsInitIdle ==
    /\ ss_text = <<>>
    /\ ss_pc = "idle"
    /\ ss_sentences = <<>>

NoFormat == [rate |-> 0, width |-> 0, channels |-> 0]

NoWav == [exists |-> FALSE, format |-> NoFormat, data |-> <<>>]

CaInitIdle ==
    /\ audio_files = <<>>
    /\ ca_pc = "idle"
    /\ ca_i = 0
    /\ output_wav = NoWav
    /\ ca_raised = None

NoSpeed == [num |-> 0, den |-> 1]

NoQuery == [moras |-> 0, speedScale |-> NoSpeed]

SyInitIdle ==
    /\ audio_query = NoQuery
    /\ sy_custom = FALSE
    /\ sy_caller = None
    /\ sy_pc = "idle"
    /\ posted = NoSpeed

VcInitIdle ==
    /\ vc_pc = "idle"
    /\ vc_in = VcIdle
    /\ actual_duration = 0
    /\ builder = NoBuilder
    /\ loop = NoLoop
    /\ video_clip = NoTrack
    /\ audio_trim = 0
    /\ vc_error = None
    /\ handles = NoHandles
    /\ output_file = NoFile
    /\ render = NoRender
    /\ vc_raised = None
    /\ vc_failure = NoVideoFailure

Init ==
    /\ entry \in {GvEntry, GvwsEntry}
    /\ theme \in Themes
    /\ skip_cleanup \in BOOLEAN
    /\ custom_script \in {"", "custom text"}
    /\ upload_to_youtube \in BOOLEAN
    /\ thumbnail_text \in {None, "text"}
    /\ target_duration \in 1..MaxCap
    /\ output_filename \in OutputFilenames
    /\ output_dir \in OutputDirs
    /\ pc = "theme_validation"
    /\ calls = <<>>
    /\ script_data = NoScript
    /\ basic_result = EmptyBasic
    /\ result = EmptyResult
    /\ cleanups = 0
    /\ outcome = "running"
    /\ failed_at = None
    /\ cause = None
    /\ narration = 0
    /\ rendered = 0
    /\ progress = <<>>
    /\ saved_files = {}
    /\ srt_cues = <<>>
    /\ VcInitIdle
    /\ VgInitIdle
    /\ StInitIdle
    /\ TdInitIdle
    /\ SsInitIdle
    /\ CaInitIdle
    /\ SyInitIdle

Next ==
    \/ ValidateTheme
    \/ ConfigValidation
    \/ ScriptGeneration
    \/ ImageFetching
    \/ VoiceGeneration
    \/ VideoCreation
    \/ Completion
    \/ SubtitleGeneration
    \/ SubtitleEmbedding
    \/ YoutubeUpload
    \/ Finalize

Spec == Init /\ [][Next]_vars

RECURSIVE SumDurations(_)
SumDurations(clips) ==
    IF clips = <<>> THEN Rat(0, 1)
    ELSE RatAdd(clips[1].duration, SumDurations(Tail(clips)))

(***************************************************************************)
(* VideoCreator._create_image_slideshow                                    *)
(***************************************************************************)
\* one ImageClip of the slideshow: set_duration, fadein, fadeout
ImageClip(i, n, image_duration) ==
    [image |-> i, duration |-> image_duration, fadein |-> i > 1,
     fadeout |-> i < n, still |-> FALSE]

RECURSIVE SlideshowClipsStopAtMissing(_, _, _)
SlideshowClipsStopAtMissing(images, i, image_duration) ==
    IF i > Len(images) THEN <<>>
    ELSE IF ~images[i] THEN <<>>
    ELSE << ImageClip(i, Len(images), image_duration) >>
         \o SlideshowClipsStopAtMissing(images, i + 1, image_duration)

\* the for-loop over images from index i on: a missing file is skipped
RECURSIVE SlideshowClips(_, _, _)
SlideshowClips(images, i, image_duration) ==
    IF i > Len(images) THEN <<>>
    ELSE IF ~images[i]
    THEN SlideshowClips(images, i + 1, image_duration)
    ELSE << ImageClip(i, Len(images), image_duration) >>
         \o SlideshowClips(images, i + 1, image_duration)

EnsureExactDurationTrimOnly(clips, duration) ==
    LET total == SumDurations(clips)
    IN  IF RatLess(Rat(duration, 1), total)
        THEN [strategy |-> "slideshow", segments |-> clips,
              duration |-> Rat(duration, 1)]
        ELSE [strategy |-> "slideshow", segments |-> clips, duration |-> total]

\* "Ensure exact duration": trim the concatenation, or hold the last frame
EnsureExactDuration(clips, duration) ==
    LET total == SumDurations(clips)
        extension == [image |-> clips[Len(clips)].image,
                      duration |-> RatSub(Rat(duration, 1), total),
                      fadein |-> FALSE, fadeout |-> FALSE, still |-> TRUE]
    IN  IF RatLess(Rat(duration, 1), total)
        THEN [strategy |-> "slideshow", segments |-> clips,
              duration |-> Rat(duration, 1)]
        ELSE IF RatLess(total, Rat(duration, 1))
        THEN [strategy |-> "slideshow", segments |-> Append(clips, extension),
              duration |-> RatAdd(total, extension.duration)]
        ELSE [strategy |-> "slideshow", segments |-> clips, duration |-> total]

\* the whole method: the track it returns, or the error it raises
CreateImageSlideshow(images, duration) ==
    IF Len(images) = 0
    THEN [error |-> "division by zero", track |-> NoTrack]
    ELSE LET clips == SlideshowClips(images, 1, Rat(duration, Len(images)))
         IN  IF clips = <<>>
             THEN [error |-> "No valid images found for slideshow",
                   track |-> NoTrack]
             ELSE [error |-> None, track |-> EnsureExactDuration(clips, duration)]

(***************************************************************************)
(* VideoCreator._create_video_background and _loop_video                   *)
(***************************************************************************)
\* "Select the first valid video": index of the first existing file, or 0
RECURSIVE SelectVideo(_, _)
SelectVideo(videos, i) ==
    IF i > Len(videos) THEN 0
    ELSE IF videos[i].exists THEN i
    ELSE SelectVideo(videos, i + 1)

\* video_clip.subclip(t_start, t_end)
Subclip(t_start, t_end) ==
    [start |-> t_start, end |-> t_end, duration |-> Rat(t_end - t_start, 1)]

LoopBodyAlwaysFull(l, target) ==
    [l EXCEPT !.clips = Append(@, Subclip(0, l.clip)),
              !.current_duration = @ + l.clip]

\* one iteration of the while-loop of _loop_video
LoopBody(l, target) ==
    LET remaining_duration == target - l.current_duration
    IN  IF remaining_duration >= l.clip
        THEN [l EXCEPT !.clips = Append(@, Subclip(0, l.clip)),
                       !.current_duration = @ + l.clip]
        ELSE [l EXCEPT !.clips = Append(@, Subclip(0, remaining_duration)),
                       !.current_duration = @ + remaining_duration]

VideoCodecError == "Video codec error. Please check MoviePy installation."
VideoMemoryError == "Insufficient memory for video processing."
VideoPermissionError == "Permission denied. Check output directory permissions."
VideoDiskError == "Insufficient disk space for video creation."
VideoFailedPrefix == "Video creation failed: "

\* _handle_video_error: the message of the RuntimeError it raises; the
\* category is found by substring search in the lower-cased message
HandleVideoError(error) ==
    LET error_msg == Lower(error)
    IN  IF Contains(error_msg, "codec") THEN VideoCodecError
        ELSE IF Contains(error_msg, "memory") THEN VideoMemoryError
        ELSE IF Contains(error_msg, "permission") THEN VideoPermissionError
        ELSE IF Contains(error_msg, "disk") \/ Contains(error_msg, "space")
        THEN VideoDiskError
        ELSE VideoFailedPrefix \o error

(***************************************************************************)
(* VideoCreator._render_video                                              *)
(***************************************************************************)
MinFileSize == 1000

\* What clip.write_videofile can raise: the kind of cause and str(e).  The
\* texts are those of the tests (src/test_video_creator.py:457,469,
\* src/test_error_scenarios.py:142,183,259); a MemoryError raised by the
\* interpreter itself carries no text.
WriteFailures ==
    { [cause |-> "codec", message |-> "Codec not found"],
      [cause |-> "memory", message |-> "Insufficient memory"],
      [cause |-> "memory", message |-> ""],
      [cause |-> "permission", message |-> "Permission denied"],
      [cause |-> "disk", message |-> "No space left on disk"],
      [cause |-> "other", message |-> "Render error"] }

NotCreated == "Video file was not created"
Corrupted == "Video file appears to be corrupted"
RenderPrefix == "Failed to render video: "

\* the file at output_path once write_videofile has returned or raised
WrittenFiles ==
    { [exists |-> FALSE, size |-> 0],
      [exists |-> TRUE, size |-> MinFileSize - 1],
      [exists |-> TRUE, size |-> MinFileSize] }

\* _render_video that leaves the file where it is
RenderVideoKeepsFile(write, written, remove_fails) ==
    LET e == IF write.cause # None
             THEN write
             ELSE IF ~written.exists
             THEN [cause |-> "other", message |-> NotCreated]
             ELSE IF written.size < MinFileSize
             THEN [cause |-> "other", message |-> Corrupted]
             ELSE NoVideoFailure
    IN  IF e.cause = None
        THEN [outcome |-> "returned", failure |-> NoVideoFailure,
              written |-> written, remove_failed |-> FALSE, file |-> written]
        ELSE [outcome |-> "raised",
              failure |-> [cause |-> e.cause,
                           message |-> RenderPrefix \o e.message],
              written |-> written, remove_failed |-> FALSE, file |-> written]

\* _render_video(clip, output_path): write is what write_videofile raised (or
\* NoVideoFailure), written the file it left, remove_fails whether os.remove
\* would raise
RenderVideo(write, written, remove_fails) ==
    LET e == IF write.cause # None
             THEN write
             ELSE IF ~written.exists
             THEN [cause |-> "other", message |-> NotCreated]
             ELSE IF written.size < MinFileSize
             THEN [cause |-> "other", message |-> Corrupted]
             ELSE NoVideoFailure
    IN  IF e.cause = None
        THEN [outcome |-> "returned", failure |-> NoVideoFailure,
              written |-> written, remove_failed |-> FALSE, file |-> written]
        ELSE [outcome |-> "raised",
              failure |-> [cause |-> e.cause,
                           message |-> RenderPrefix \o e.message],
              written |-> written,
              remove_failed |-> written.exists /\ remove_fails,
              file |-> IF written.exists /\ ~remove_fails
                       THEN NoFile ELSE written]

(***************************************************************************)
(* VideoCreator.create_video                                               *)
(***************************************************************************)
BackgroundPrefix == "Failed to create video background: "
LoopPrefix == "Failed to create video background: Failed to loop video: "
SlideshowPrefix == "Failed to create image slideshow: "

\* the errors the builders raise, as they reach create_video
BuilderErrors ==
    { BackgroundPrefix \o "No valid video files found",
      BackgroundPrefix \o "Invalid video file",
      LoopPrefix \o "No clips generated for looping",
      LoopPrefix \o "Invalid clip",
      SlideshowPrefix \o "division by zero",
      SlideshowPrefix \o "No valid images found for slideshow" }

\* the errors _render_video raises
RenderErrors ==
    { RenderPrefix \o f.message : f \in WriteFailures }
    \cup { RenderPrefix \o NotCreated, RenderPrefix \o Corrupted }

\* create_video: except Exception as e: self._handle_video_error(e), for
\* each error that can reach it
CreateVideoRaises ==
    [m \in BuilderErrors \cup RenderErrors |-> HandleVideoError(m)]

\* a builder raises message, wrapped with prefix by its except clauses
VcFail(prefix, message) ==
    /\ vc_error' = message
    /\ vc_failure' = [cause |-> "other", message |-> prefix \o message]
    /\ vc_raised' = IF vc_in.call = "create_video"
                    THEN CreateVideoRaises[prefix \o message]
                    ELSE prefix \o message
    /\ vc_pc' = "done"

\* argument checks, AudioFileClip, actual_duration, choice of the builder
CreateVideo ==
    /\ vc_pc = "create_video"
    /\ \E audio_exists \in BOOLEAN :
         IF vc_in.videos = <<>> /\ vc_in.images = <<>>
         THEN /\ vc_error' = "No videos or images provided"
              /\ vc_raised' = "No videos or images provided for video creation"
              /\ vc_pc' = "done"
              /\ UNCHANGED <<actual_duration, handles>>
         ELSE IF ~audio_exists
         THEN /\ vc_error' = "Audio file not found"
              /\ vc_raised' = "Audio file not found"
              /\ vc_pc' = "done"
              /\ UNCHANGED <<actual_duration, handles>>
         ELSE /\ handles' = [handles EXCEPT !.audio_clip = "open"]
              /\ actual_duration' = EffectiveDuration(vc_in.audio, target_duration,
                                                      vc_in.custom)
              /\ vc_pc' = IF Len(vc_in.videos) > 0
                          THEN "_create_video_background"
                          ELSE "_create_image_slideshow"
              /\ UNCHANGED <<vc_error, vc_raised>>
    /\ UNCHANGED <<vc_in, builder, loop, video_clip, audio_trim, output_file,
                   render, vc_failure, target_duration, wfvars, vgvars, stvars, tdvars,
                   ssvars, cavars, syvars>>

\* _create_video_background up to the cut, or up to the start of the loop
CreateVideoBackground ==
    /\ vc_pc = "_create_video_background"
    /\ builder' = [name |-> "_create_video_background",
                   duration |-> actual_duration]
    /\ LET v == SelectVideo(vc_in.videos, 1)
           d == vc_in.videos[v].duration
       IN  IF v = 0
           THEN VcFail(BackgroundPrefix, "No valid video files found")
                /\ UNCHANGED <<loop, video_clip, handles>>
           ELSE IF d <= 0
           THEN VcFail(BackgroundPrefix, "Invalid video file")
                /\ UNCHANGED <<loop, video_clip, handles>>
           ELSE IF d >= actual_duration
           THEN /\ video_clip' = [strategy |-> "video",
                                  segments |-> << Subclip(0, actual_duration) >>,
                                  duration |-> Rat(actual_duration, 1)]
                /\ handles' = [handles EXCEPT !.video_clip = "open"]
                /\ vc_pc' = "set_audio"
                /\ UNCHANGED <<loop, vc_error, vc_failure, vc_raised>>
           ELSE /\ loop' = [clip |-> d, clips |-> <<>>, current_duration |-> 0]
                /\ vc_pc' = "_loop_video"
                /\ UNCHANGED <<video_clip, handles, vc_error, vc_failure,
                               vc_raised>>
    /\ UNCHANGED <<vc_in, actual_duration, audio_trim, output_file, render,
                   target_duration, wfvars, vgvars, stvars, tdvars, ssvars,
                   cavars, syvars>>

\* while current_duration < target_duration: one iteration
LoopVideoIteration ==
    /\ vc_pc = "_loop_video"
    /\ loop.current_duration < actual_duration
    /\ loop' = LoopBody(loop, actual_duration)
    /\ UNCHANGED <<vc_pc, vc_in, actual_duration, builder, video_clip,
                   audio_trim, vc_error, handles, output_file, render,
                   vc_raised, vc_failure, target_duration, wfvars, vgvars,
                   stvars, tdvars, ssvars, cavars, syvars>>

\* after the loop: validate the clips and concatenate them
LoopVideoConcatenate ==
    /\ vc_pc = "_loop_video"
    /\ ~(loop.current_duration < actual_duration)
    /\ IF loop.clips = <<>>
       THEN VcFail(LoopPrefix, "No clips generated for looping")
            /\ UNCHANGED <<video_clip, handles>>
       ELSE IF \E i \in 1..Len(loop.clips) :
                 ~RatLess(Rat(0, 1), loop.clips[i].duration)
       THEN VcFail(LoopPrefix, "Invalid clip")
            /\ UNCHANGED <<video_clip, handles>>
       ELSE /\ video_clip' = [strategy |-> "video", segments |-> loop.clips,
                              duration |-> SumDurations(loop.clips)]
            /\ handles' = [handles EXCEPT !.video_clip = "open"]
            /\ vc_pc' = "set_audio"
            /\ UNCHANGED <<vc_error, vc_failure, vc_raised>>
    /\ UNCHANGED <<vc_in, actual_duration, builder, loop, audio_trim,
                   output_file, render, target_duration, wfvars, vgvars,
                   stvars, tdvars, ssvars, cavars, syvars>>

\* _create_image_slideshow, called by create_video or directly
ImageSlideshow ==
    /\ vc_pc = "_create_image_slideshow"
    /\ builder' = [name |-> "_create_image_slideshow",
                   duration |-> actual_duration]
    /\ LET r == CreateImageSlideshow(vc_in.images, actual_duration)
       IN  IF r.error # None
           THEN VcFail(SlideshowPrefix, r.error)
                /\ UNCHANGED <<video_clip, handles>>
           ELSE /\ video_clip' = r.track
                /\ handles' = [handles EXCEPT !.video_clip = "open"]
                /\ vc_pc' = IF vc_in.call = "create_video"
                            THEN "set_audio" ELSE "done"
                /\ UNCHANGED <<vc_error, vc_failure, vc_raised>>
    /\ UNCHANGED <<vc_in, actual_duration, loop, audio_trim, output_file,
                   render, target_duration, wfvars, vgvars, stvars, tdvars,
                   ssvars, cavars, syvars>>

\* video_clip.set_audio(audio_clip.subclip(0, actual_duration)),
\* _render_video, then the three close() calls or the except clause
SetAudioAndRender ==
    /\ vc_pc = "set_audio"
    /\ audio_trim' = actual_duration
    /\ \E write \in {NoVideoFailure} \cup WriteFailures,
          written \in WrittenFiles, remove_fails \in BOOLEAN :
         LET r == RenderVideo(write, written, remove_fails)
         IN  /\ render' = [outcome |-> r.outcome, write |-> write,
                           written |-> r.written,
                           remove_failed |-> r.remove_failed]
             /\ output_file' = r.file
             /\ IF r.outcome = "returned"
                THEN /\ handles' = [audio_clip |-> "closed",
                                    video_clip |-> "closed",
                                    final_clip |-> "closed"]
                     /\ UNCHANGED <<vc_error, vc_failure, vc_raised>>
                ELSE /\ handles' = [handles EXCEPT !.final_clip = "open"]
                     /\ vc_error' = r.failure.message
                     /\ vc_failure' = r.failure
                     /\ vc_raised' = CreateVideoRaises[r.failure.message]
    /\ vc_pc' = "done"
    /\ UNCHANGED <<vc_in, actual_duration, builder, loop, video_clip,
                   target_duration, wfvars, vgvars, stvars, tdvars, ssvars,
                   cavars, syvars>>

(***************************************************************************)
(* The VideoCreator specification.                                         *)
(***************************************************************************)
SeqsUpTo(S, n) == UNION { [1..k -> S] : k \in 0..n }

VideoFiles ==
    { [exists |-> FALSE, duration |-> 0] }
    \cup { [exists |-> TRUE, duration |-> d] : d \in 0..MaxClip }

WfInitIdle ==
    /\ entry = GvEntry
    /\ theme = <<>>
    /\ skip_cleanup = FALSE
    /\ custom_script = ""
    /\ upload_to_youtube = FALSE
    /\ thumbnail_text = None
    /\ pc = "idle"
    /\ calls = <<>>
    /\ script_data = NoScript
    /\ basic_result = EmptyBasic
    /\ result = EmptyResult
    /\ cleanups = 0
    /\ outcome = "running"
    /\ failed_at = None
    /\ cause = None
    /\ narration = 0
    /\ rendered = 0
    /\ progress = <<>>
    /\ output_filename = None
    /\ output_dir = "./output"
    /\ saved_files = {}
    /\ srt_cues = <<>>

\* a call of create_video(images, audio_path, is_custom_script, videos), or a
\* direct call of _create_image_slideshow(images, duration)
InitCreator ==
    /\ WfInitIdle
    /\ VgInitIdle
    /\ StInitIdle
    /\ TdInitIdle
    /\ SsInitIdle
    /\ CaInitIdle
    /\ SyInitIdle
    /\ target_duration \in 1..MaxCap
    /\ \/ /\ \/ vc_in \in [call : {"create_video"}, audio : 1..MaxAudio,
                           custom : BOOLEAN,
                           images : SeqsUpTo(BOOLEAN, MaxImages),
                           videos : {<<>>}]
             \/ vc_in \in [call : {"create_video"}, audio : 1..MaxAudio,
                           custom : BOOLEAN,
                           images : SeqsUpTo(BOOLEAN, MaxImagesWithVideos),
                           videos : SeqsUpTo(VideoFiles, MaxVideos)
                                        \ {<<>>}]
          /\ vc_pc = "create_video"
          /\ actual_duration = 0
       \/ /\ vc_in \in [call : {"_create_image_slideshow"}, audio : {0},
                        custom : {FALSE},
                        images : SeqsUpTo(BOOLEAN, MaxImages),
                        videos : {<<>>}]
          /\ vc_pc = "_create_image_slideshow"
          /\ actual_duration \in 1..MaxAudio
    /\ builder = NoBuilder
    /\ loop = NoLoop
    /\ video_clip = NoTrack
    /\ audio_trim = 0
    /\ vc_error = None
    /\ handles = NoHandles
    /\ output_file = NoFile
    /\ render = NoRender
    /\ vc_raised = None
    /\ vc_failure = NoVideoFailure

NextCreator ==
    \/ CreateVideo
    \/ CreateVideoBackground
    \/ LoopVideoIteration
    \/ LoopVideoConcatenate
    \/ ImageSlideshow
    \/ SetAudioAndRender

SpecCreator == InitCreator /\ [][NextCreator]_vars

(***************************************************************************)
(* VoiceGenerator (src/voice_generator.py).  A text is a sequence of       *)
(* characters; ".", "!", "?" stand for the three sentence marks of the     *)
(* code's first pattern, "," and ";" for the two clause marks of its       *)
(* second one.  An error message is a string, searched as the code does.   *)
(***************************************************************************)
MaxText == 6
MaxChunkChars == 3

SentenceMarks == {".", "!", "?"}
ClauseMarks == {",", ";"}

\* re.split without the capturing group: the marks are lost
RECURSIVE SplitDropMarks(_, _, _)
SplitDropMarks(text, marks, piece) ==
    IF text = <<>> THEN << piece >>
    ELSE IF Head(text) \in marks
    THEN << piece >> \o SplitDropMarks(Tail(text), marks, <<>>)
    ELSE SplitDropMarks(Tail(text), marks, Append(piece, Head(text)))

\* re.split(r'([marks])', text) and the pairing pieces[i] + pieces[i+1] of
\* the for-loop over range(0, len(pieces), 2): every piece runs up to and
\* includes its mark, the last piece is what follows the last mark
RECURSIVE SplitKeep(_, _, _)
SplitKeep(text, marks, piece) ==
    IF text = <<>> THEN << piece >>
    ELSE IF Head(text) \in marks
    THEN << Append(piece, Head(text)) >> \o SplitKeep(Tail(text), marks, <<>>)
    ELSE SplitKeep(Tail(text), marks, Append(piece, Head(text)))

\* the inner for-loop over the comma_parts of one sentence
RECURSIVE PlaceParts(_, _, _)
PlaceParts(parts, st, max_chars) ==
    IF parts = <<>> THEN st
    ELSE LET part == Head(parts)
             placed ==
                 IF Len(st.current_chunk) + Len(part) <= max_chars
                 THEN [st EXCEPT !.current_chunk = @ \o part]
                 ELSE [current_chunk |-> part,
                       chunks |-> IF st.current_chunk # <<>>
                                  THEN Append(st.chunks, Strip(st.current_chunk))
                                  ELSE st.chunks]
         IN  PlaceParts(Tail(parts), placed, max_chars)

\* one iteration of the for-loop over the sentences
PlaceSentence(sentence, st, max_chars) ==
    IF Len(st.current_chunk) + Len(sentence) <= max_chars
    THEN [st EXCEPT !.current_chunk = @ \o sentence]
    ELSE IF st.current_chunk # <<>>
    THEN [current_chunk |-> sentence,
          chunks |-> Append(st.chunks, Strip(st.current_chunk))]
    ELSE PlaceParts(SplitKeep(sentence, ClauseMarks, <<>>), st, max_chars)

\* [chunk for chunk in chunks if chunk.strip()]
RECURSIVE NonBlank(_)
NonBlank(cs) ==
    IF cs = <<>> THEN <<>>
    ELSE IF Strip(Head(cs)) # <<>> THEN << Head(cs) >> \o NonBlank(Tail(cs))
    ELSE NonBlank(Tail(cs))

\* after the loop: the last chunk is appended, blank chunks are dropped
ReturnChunks(st) ==
    NonBlank(IF st.current_chunk # <<>>
             THEN Append(st.chunks, Strip(st.current_chunk))
             ELSE st.chunks)

NotAccessible ==
    "VOICEVOX server is not accessible. Please start VOICEVOX application."
ServerTimeout == "VOICEVOX server timeout. Please try again."
InvalidSpeaker == "Invalid speaker ID. Please check VOICEVOX configuration."
VoiceFailedPrefix == "Voice generation failed: "

\* _handle_voice_error: the message of the RuntimeError it raises
HandleVoiceError(error) ==
    LET error_msg == Lower(error)
    IN  IF Contains(error_msg, "connection") \/ Contains(error_msg, "not running")
        THEN NotAccessible
        ELSE IF Contains(error_msg, "timeout") THEN ServerTimeout
        ELSE IF Contains(error_msg, "speaker") THEN InvalidSpeaker
        ELSE VoiceFailedPrefix \o error

\* What can go wrong inside generate_voice: where, the kind of cause, and the
\* message of the exception that reaches the except clause.  The texts of the
\* exceptions of requests and open are those of the tests
\* (src/test_error_scenarios.py:60,527, src/test_voice_generator.py:154,328).
QueryFailures ==
    { [at |-> "_create_audio_query", cause |-> "connectivity",
       message |-> "Cannot connect to VOICEVOX server. Please ensure it's running."],
      [at |-> "_create_audio_query", cause |-> "connectivity",
       message |-> "VOICEVOX server is not running"],
      [at |-> "_create_audio_query", cause |-> "timeout",
       message |-> "VOICEVOX server timeout. Please try again."],
      [at |-> "_create_audio_query", cause |-> "request",
       message |-> "Invalid text or speaker ID"],
      [at |-> "_create_audio_query", cause |-> "api",
       message |-> "VOICEVOX API error: 500"],
      [at |-> "_create_audio_query", cause |-> "network",
       message |-> "Network error: Network error"] }

SynthesisFailures ==
    { [at |-> "_synthesize_voice", cause |-> "connectivity",
       message |-> "Voice synthesis network error: Connection refused"],
      [at |-> "_synthesize_voice", cause |-> "timeout",
       message |-> "Voice synthesis network error: Request timeout"],
      [at |-> "_synthesize_voice", cause |-> "api",
       message |-> "Voice synthesis failed: 500"] }

SaveFailures ==
    { [at |-> "_save_audio_file", cause |-> "corruption",
       message |-> "Generated audio file is empty"],
      [at |-> "_save_audio_file", cause |-> "corruption",
       message |-> "Generated audio file is corrupted"],
      [at |-> "_save_audio_file", cause |-> "io",
       message |-> "Failed to save audio file: Permission denied"] }

VoiceFailures == QueryFailures \cup SynthesisFailures \cup SaveFailures

\* generate_voice: except Exception as e: self._handle_voice_error(e), for
\* each failure
GenerateVoiceRaises == [f \in VoiceFailures |-> HandleVoiceError(f.message)]

EmptyScript == "Script text cannot be empty"
NoAudioFiles == "No audio files to combine"
CombineFailed == "Failed to combine audio files: incompatible format"

\* the errors that reach the except clause of generate_long_voice, and what
\* _handle_voice_error raises for each
LongVoiceRaises ==
    [m \in { GenerateVoiceRaises[f] : f \in VoiceFailures }
           \cup {EmptyScript, NoAudioFiles, CombineFailed} |->
        HandleVoiceError(m)]

\* a handler that swallows the failure of a chunk and goes on
LongVoiceExceptSkipsChunk(message, files) ==
    [vg_pc |-> "generate_voice", vg_raised |-> None,
     temp_audio_files |-> Append(files, 0)]

\* generate_long_voice: except Exception as e: self._handle_voice_error(e)
LongVoiceExcept(message, files) ==
    [vg_pc |-> "done", vg_raised |-> LongVoiceRaises[message],
     temp_audio_files |-> files]

\* generate_long_voice up to the call of _split_text_for_voice and its
\* early return
GenerateLongVoice ==
    /\ vg_pc = "generate_long_voice"
    /\ IF script = <<>> \/ Strip(script) = <<>>
       THEN /\ vg_raised' = EmptyScript
            /\ vg_pc' = "done"
            /\ UNCHANGED <<sentences, chunks>>
       ELSE IF Len(script) <= max_chunk_chars
       THEN /\ chunks' = << script >>
            /\ vg_pc' = "generate_voice"
            /\ UNCHANGED <<sentences, vg_raised>>
       ELSE /\ sentences' = SplitKeep(script, SentenceMarks, <<>>)
            /\ vg_pc' = "_split_text_for_voice"
            /\ UNCHANGED <<chunks, vg_raised>>
    /\ UNCHANGED <<script, max_chunk_chars, current_chunk, temp_audio_files,
                   gv_failure, gv_raised, combined, wfvars, vcvars,
                   target_duration, stvars, tdvars, ssvars, cavars, syvars>>

\* _split_text_for_voice: one sentence of the for-loop
SplitTextSentence ==
    /\ vg_pc = "_split_text_for_voice"
    /\ sentences # <<>>
    /\ LET st == PlaceSentence(Head(sentences),
                               [current_chunk |-> current_chunk,
                                chunks |-> chunks], max_chunk_chars)
       IN  /\ current_chunk' = st.current_chunk
           /\ chunks' = st.chunks
    /\ sentences' = Tail(sentences)
    /\ UNCHANGED <<script, max_chunk_chars, vg_pc, temp_audio_files,
                   gv_failure, gv_raised, vg_raised, combined, wfvars, vcvars,
                   target_duration, stvars, tdvars, ssvars, cavars, syvars>>

\* _split_text_for_voice: the return after the for-loop
SplitTextReturn ==
    /\ vg_pc = "_split_text_for_voice"
    /\ sentences = <<>>
    /\ chunks' = ReturnChunks([current_chunk |-> current_chunk,
                               chunks |-> chunks])
    /\ vg_pc' = "generate_voice"
    /\ UNCHANGED <<script, max_chunk_chars, sentences, current_chunk,
                   temp_audio_files, gv_failure, gv_raised, vg_raised,
                   combined, wfvars, vcvars, target_duration, stvars, tdvars,
                   ssvars, cavars, syvars>>

\* generate_long_voice: generate_voice(chunk, ...) for the next chunk
GenerateVoice ==
    /\ vg_pc = "generate_voice"
    /\ Len(temp_audio_files) < Len(chunks)
    /\ LET i == Len(temp_audio_files) + 1
       IN  IF Strip(chunks[i]) = <<>>
           THEN LET x == LongVoiceExcept(EmptyScript, temp_audio_files)
                IN  /\ vg_pc' = x.vg_pc
                    /\ vg_raised' = x.vg_raised
                    /\ temp_audio_files' = x.temp_audio_files
                    /\ UNCHANGED <<gv_failure, gv_raised>>
           ELSE \E f \in {NoFailure} \cup VoiceFailures :
                  IF f = NoFailure
                  THEN /\ temp_audio_files' = Append(temp_audio_files, i)
                       /\ UNCHANGED <<vg_pc, gv_failure, gv_raised, vg_raised>>
                  ELSE LET raised == GenerateVoiceRaises[f]
                           x == LongVoiceExcept(raised, temp_audio_files)
                       IN  /\ gv_failure' = [chunk |-> i, at |-> f.at,
                                             cause |-> f.cause,
                                             message |-> f.message]
                           /\ gv_raised' = raised
                           /\ vg_pc' = x.vg_pc
                           /\ vg_raised' = x.vg_raised
                           /\ temp_audio_files' = x.temp_audio_files
    /\ UNCHANGED <<script, max_chunk_chars, sentences, current_chunk, chunks,
                   combined, wfvars, vcvars, target_duration, stvars, tdvars,
                   ssvars, cavars, syvars>>

\* generate_long_voice: _combine_audio_files(temp_audio_files, output_path)
CombineAudioFiles ==
    /\ vg_pc = "generate_voice"
    /\ Len(temp_audio_files) = Len(chunks)
    /\ \E compatible \in BOOLEAN :
         IF temp_audio_files = <<>>
         THEN /\ vg_raised' = LongVoiceRaises[NoAudioFiles]
              /\ UNCHANGED combined
         ELSE IF Len(temp_audio_files) > 1 /\ ~compatible
         THEN /\ vg_raised' = LongVoiceRaises[CombineFailed]
              /\ UNCHANGED combined
         ELSE /\ combined' = temp_audio_files
              /\ UNCHANGED vg_raised
    /\ vg_pc' = "done"
    /\ UNCHANGED <<script, max_chunk_chars, sentences, current_chunk, chunks,
                   temp_audio_files, gv_failure, gv_raised, wfvars, vcvars,
                   target_duration, stvars, tdvars, ssvars, cavars, syvars>>

TextChars == {"a", " ", ".", ","}

\* a call of generate_long_voice(script, max_chunk_chars=...)
InitVoice ==
    /\ WfInitIdle
    /\ VcInitIdle
    /\ StInitIdle
    /\ TdInitIdle
    /\ SsInitIdle
    /\ CaInitIdle
    /\ SyInitIdle
    /\ target_duration = 1
    /\ script \in SeqsUpTo(TextChars, MaxText)
    /\ max_chunk_chars \in 2..MaxChunkChars
    /\ vg_pc = "generate_long_voice"
    /\ sentences = <<>>
    /\ current_chunk = <<>>
    /\ chunks = <<>>
    /\ temp_audio_files = <<>>
    /\ gv_failure = [chunk |-> 0] @@ NoFailure
    /\ gv_raised = None
    /\ vg_raised = None
    /\ combined = <<>>

NextVoice ==
    \/ GenerateLongVoice
    \/ SplitTextSentence
    \/ SplitTextReturn
    \/ GenerateVoice
    \/ CombineAudioFiles

SpecVoice == InitVoice /\ [][NextVoice]_vars

(***************************************************************************)
(* SubtitleGenerator._calculate_subtitle_timing                            *)
(* (src/subtitle_generator.py).  Times are exact rationals, in seconds.    *)
(***************************************************************************)
MaxSentences == 3
MaxHalfSeconds == 8

\* the guard on the sentence list, total_chars, the state before the loop
TimingStart ==
    /\ st_pc = "_calculate_subtitle_timing"
    /\ IF st_sentences = <<>>
       THEN st_pc' = "done" /\ UNCHANGED st_i
       ELSE st_pc' = "for" /\ st_i' = 1
    /\ subtitle_entries' = <<>>
    /\ current_time' = Rat(0, 1)
    /\ UNCHANGED <<st_sentences, total_duration, wfvars, vcvars,
                   target_duration, vgvars, tdvars, ssvars, cavars, syvars>>

\* one iteration of the for-loop; the loop ends with the break or after the
\* last sentence, and the list is returned
TimingSentence ==
    /\ st_pc = "for"
    /\ LET sentence == st_sentences[st_i]
           sentence_duration ==
               SentenceDuration(sentence, TotalChars(st_sentences),
                                total_duration)
           start_time == current_time
           end_time == EndTime(current_time, sentence_duration, total_duration)
       IN  /\ subtitle_entries' =
                  Append(subtitle_entries,
                         [start |-> start_time, end |-> end_time,
                          text |-> sentence])
           /\ current_time' = end_time
           /\ IF ~RatLess(end_time, total_duration)
                 \/ st_i = Len(st_sentences)
              THEN st_pc' = "done" /\ UNCHANGED st_i
              ELSE st_i' = st_i + 1 /\ UNCHANGED st_pc
    /\ UNCHANGED <<st_sentences, total_duration, wfvars, vcvars,
                   target_duration, vgvars, tdvars, ssvars, cavars, syvars>>

\* sentences as _split_text_into_sentences returns them: more than one
\* character each
SentenceTexts == {"ab", "abc", "abcdef"}

\* a call of _calculate_subtitle_timing(sentences, total_duration) with
\* total_duration > 0, in half seconds
InitSubtitle ==
    /\ WfInitIdle
    /\ VcInitIdle
    /\ VgInitIdle
    /\ TdInitIdle
    /\ SsInitIdle
    /\ CaInitIdle
    /\ SyInitIdle
    /\ target_duration = 1
    /\ st_sentences \in SeqsUpTo(SentenceTexts, MaxSentences)
    /\ total_duration \in { Rat(k, 2) : k \in 1..MaxHalfSeconds }
    /\ st_pc = "_calculate_subtitle_timing"
    /\ st_i = 0
    /\ current_time = 0
    /\ subtitle_entries = <<>>

NextSubtitle ==
    \/ TimingStart
    \/ TimingSentence

SpecSubtitle == InitSubtitle /\ [][NextSubtitle]_vars

(***************************************************************************)
(* Workflow runs over one temp directory.  Every run is a VideoWorkflow in *)
(* its own process with the same config.temp_dir (src/config.py:28).  A    *)
(* file is its name prefix and the run that created it; the rest of the    *)
(* name (an index, an id, a timestamp) is taken to differ between runs.    *)
(***************************************************************************)
MaxRuns == 2

Runs == 1..MaxRuns

TempFile(prefix, r) == [prefix |-> prefix, run |-> r]

\* [f for f in os.listdir(temp_dir) if f.startswith(prefix) ...]
Listed(prefix) == { f \in temp_files : f.prefix = prefix }

\* one stage of run r: it saves its file in temp_dir, or raises and the
\* except clause of the workflow starts _cleanup_temp_files
RunStage(r, at, prefix, next) ==
    /\ run_pc[r] = at
    /\ \E ok \in BOOLEAN :
         IF ok
         THEN /\ temp_files' = temp_files \cup {TempFile(prefix, r)}
              /\ run_pc' = [run_pc EXCEPT ![r] = next]
         ELSE /\ temp_files' = temp_files
              /\ run_pc' = [run_pc EXCEPT ![r] = "cleanup_temp_images"]
    /\ UNCHANGED <<removed, wfvars, vcvars, target_duration, vgvars, stvars, ssvars,
                   cavars, syvars>>

\* one cleanup function of run r: os.remove of every listed file
RunCleanup(r, at, prefix, next) ==
    /\ run_pc[r] = at
    /\ temp_files' = temp_files \ Listed(prefix)
    /\ removed' = removed \cup { [file |-> f, by |-> r] : f \in Listed(prefix) }
    /\ run_pc' = [run_pc EXCEPT ![r] = next]
    /\ UNCHANGED <<wfvars, vcvars, target_duration, vgvars, stvars, ssvars,
                   cavars, syvars>>

\* image_fetcher.fetch_images: image_{i}_{id}.jpg
RunFetchImages ==
    \E r \in Runs :
        RunStage(r, "fetch_images", ImagePrefix, "generate_voice")

\* voice_generator.generate_voice: voice_{timestamp}.wav
RunGenerateVoice ==
    \E r \in Runs :
        RunStage(r, "generate_voice", VoicePrefix, "generate_thumbnail")

\* thumbnail_generator.generate_thumbnail (only with upload_to_youtube and
\* thumbnail_text; its errors are caught): thumbnail_{timestamp}.jpg
RunGenerateThumbnail ==
    \E r \in Runs :
        /\ run_pc[r] = "generate_thumbnail"
        /\ \E made \in BOOLEAN :
             temp_files' = IF made
                           THEN temp_files \cup {TempFile(ThumbnailPrefix, r)}
                           ELSE temp_files
        /\ run_pc' = [run_pc EXCEPT ![r] = "cleanup_temp_images"]
        /\ UNCHANGED <<removed, wfvars, vcvars, target_duration, vgvars,
                       stvars, ssvars, cavars, syvars>>

RunCleanupTempImages ==
    \E r \in Runs :
        RunCleanup(r, "cleanup_temp_images", ImagePrefix, "cleanup_temp_audio")

RunCleanupTempAudio ==
    \E r \in Runs :
        RunCleanup(r, "cleanup_temp_audio", VoicePrefix, "cleanup_temp_files")

RunCleanupTempFiles ==
    \E r \in Runs :
        RunCleanup(r, "cleanup_temp_files", VideoPrefix,
                   "cleanup_temp_thumbnails")

RunCleanupTempThumbnails ==
    \E r \in Runs :
        RunCleanup(r, "cleanup_temp_thumbnails", ThumbnailPrefix, "done")

InitTemp ==
    /\ WfInitIdle
    /\ VcInitIdle
    /\ VgInitIdle
    /\ StInitIdle
    /\ SsInitIdle
    /\ CaInitIdle
    /\ SyInitIdle
    /\ target_duration = 1
    /\ run_pc = [r \in Runs |-> "fetch_images"]
    /\ temp_files = {}
    /\ removed = {}

NextTemp ==
    \/ RunFetchImages
    \/ RunGenerateVoice
    \/ RunGenerateThumbnail
    \/ RunCleanupTempImages
    \/ RunCleanupTempAudio
    \/ RunCleanupTempFiles
    \/ RunCleanupTempThumbnails

SpecTemp == InitTemp /\ [][NextTemp]_vars

(***************************************************************************)
(* SubtitleGenerator._split_text_into_sentences                            *)
(* (src/subtitle_generator.py).  As in the VoiceGenerator, ".", "!", "?"   *)
(* stand for the three sentence marks; "\n" is the line break.             *)
(***************************************************************************)
MaxScript == 5

LineBreak == {"\n"}

\* re.split(r'[marks]', line): the pieces between the marks, without them
RECURSIVE ReSplit(_, _, _)
ReSplit(text, marks, piece) ==
    IF text = <<>> THEN << piece >>
    ELSE IF Head(text) \in marks
    THEN << piece >> \o ReSplit(Tail(text), marks, <<>>)
    ELSE ReSplit(Tail(text), marks, Append(piece, Head(text)))

\* [line.strip() for line in text.split('\n') if line.strip()]
RECURSIVE StrippedNonBlank(_)
StrippedNonBlank(ls) ==
    IF ls = <<>> THEN <<>>
    ELSE IF Strip(Head(ls)) # <<>>
    THEN << Strip(Head(ls)) >> \o StrippedNonBlank(Tail(ls))
    ELSE StrippedNonBlank(Tail(ls))

\* part.endswith(('!', '?'))
EndsWithMark(part) == part # <<>> /\ part[Len(part)] \in {"!", "?"}

\* the inner for-loop over the parts of one line
RECURSIVE PartSentences(_)
PartSentences(parts) ==
    IF parts = <<>> THEN <<>>
    ELSE LET part == Head(parts)
         IN  IF Strip(part) # <<>>
             THEN << Strip(part)
                       \o (IF ~EndsWithMark(part) THEN <<".">> ELSE <<>>) >>
                  \o PartSentences(Tail(parts))
             ELSE PartSentences(Tail(parts))

\* the for-loop over the lines
RECURSIVE LineSentences(_)
LineSentences(ls) ==
    IF ls = <<>> THEN <<>>
    ELSE PartSentences(ReSplit(Head(ls), SentenceMarks, <<>>))
         \o LineSentences(Tail(ls))

\* [s for s in sentences if len(s) > 1]
LongerThanOne(s) == Len(s) > 1

SplitTextIntoSentences ==
    /\ ss_pc = "_split_text_into_sentences"
    /\ LET lines == StrippedNonBlank(ReSplit(ss_text, LineBreak, <<>>))
       IN  ss_sentences' = SelectSeq(LineSentences(lines), LongerThanOne)
    /\ ss_pc' = "done"
    /\ UNCHANGED <<ss_text, wfvars, vcvars, target_duration, vgvars, stvars,
                   tdvars, cavars, syvars>>

ScriptChars == {"a", " ", ".", "!", "\n"}

InitSentences ==
    /\ WfInitIdle
    /\ VcInitIdle
    /\ VgInitIdle
    /\ StInitIdle
    /\ TdInitIdle
    /\ CaInitIdle
    /\ SyInitIdle
    /\ target_duration = 1
    /\ ss_text \in SeqsUpTo(ScriptChars, MaxScript)
    /\ ss_pc = "_split_text_into_sentences"
    /\ ss_sentences = <<>>

NextSentences == SplitTextIntoSentences

SpecSentences == InitSentences /\ [][NextSentences]_vars

(***************************************************************************)
(* VoiceGenerator._combine_audio_files (src/voice_generator.py).  A WAV    *)
(* file is its format (sample rate, sample width, channels) and its        *)
(* frames; the frames of the i-th input file are written i, a frame of     *)
(* silence is written 0.                                                   *)
(***************************************************************************)
MaxAudioFiles == 3
MaxFrames == 2

Formats ==
    { [rate |-> 10, width |-> 2, channels |-> 1],
      [rate |-> 5, width |-> 2, channels |-> 1],
      [rate |-> 10, width |-> 1, channels |-> 1],
      [rate |-> 10, width |-> 2, channels |-> 2] }

\* input_wav.readframes(input_wav.getnframes()) of the i-th file
ChunkData(i) == [k \in 1..audio_files[i].frames |-> i]

\* silence_frames = int(sample_rate * 0.2)
SilenceFrames(sample_rate) == sample_rate \div 5

SilenceData(sample_rate) == [k \in 1..SilenceFrames(sample_rate) |-> 0]

SilenceAfterEvery(i, n, sample_rate) == SilenceData(sample_rate)

\* "Add silence between files (except after last file)"
SilenceAfter(i, n, sample_rate) ==
    IF i < n THEN SilenceData(sample_rate) ELSE <<>>

\* the head of the method: no file, one file (shutil.copy2), or the first
\* file's parameters and wave.open(output_path, 'wb')
CombineStart ==
    /\ ca_pc = "_combine_audio_files"
    /\ IF audio_files = <<>>
       THEN /\ ca_raised' = NoAudioFiles
            /\ ca_pc' = "done"
            /\ UNCHANGED <<output_wav, ca_i>>
       ELSE IF Len(audio_files) = 1
       THEN /\ output_wav' = [exists |-> TRUE,
                              format |-> audio_files[1].format,
                              data |-> ChunkData(1)]
            /\ ca_pc' = "done"
            /\ UNCHANGED <<ca_raised, ca_i>>
       ELSE /\ output_wav' = [exists |-> TRUE,
                              format |-> audio_files[1].format,
                              data |-> <<>>]
            /\ ca_i' = 1
            /\ ca_pc' = "for"
            /\ UNCHANGED ca_raised
    /\ UNCHANGED <<audio_files, wfvars, vcvars, target_duration, vgvars,
                   stvars, tdvars, ssvars, syvars>>

\* one iteration of the for-loop: verify the file, copy its frames, add the
\* silence; after the last file the method returns
CombineFile ==
    /\ ca_pc = "for"
    /\ ca_i <= Len(audio_files)
    /\ IF audio_files[ca_i].format # output_wav.format
       THEN /\ ca_raised' = CombineFailed
            /\ ca_pc' = "done"
            /\ UNCHANGED <<output_wav, ca_i>>
       ELSE /\ output_wav' =
                 [output_wav EXCEPT
                    !.data = @ \o ChunkData(ca_i)
                               \o SilenceAfter(ca_i, Len(audio_files),
                                               output_wav.format.rate)]
            /\ ca_i' = ca_i + 1
            /\ ca_pc' = IF ca_i = Len(audio_files) THEN "done" ELSE "for"
            /\ UNCHANGED ca_raised
    /\ UNCHANGED <<audio_files, wfvars, vcvars, target_duration, vgvars,
                   stvars, tdvars, ssvars, syvars>>

AudioFiles == [format : Formats, frames : 1..MaxFrames]

InitCombine ==
    /\ WfInitIdle
    /\ VcInitIdle
    /\ VgInitIdle
    /\ StInitIdle
    /\ TdInitIdle
    /\ SsInitIdle
    /\ SyInitIdle
    /\ target_duration = 1
    /\ audio_files \in SeqsUpTo(AudioFiles, MaxAudioFiles)
    /\ ca_pc = "_combine_audio_files"
    /\ ca_i = 0
    /\ output_wav = NoWav
    /\ ca_raised = None

NextCombine ==
    \/ CombineStart
    \/ CombineFile

SpecCombine == InitCombine /\ [][NextCombine]_vars

(***************************************************************************)
(* VoiceGenerator._synthesize_voice and _estimate_duration                 *)
(* (src/voice_generator.py).  Durations are seconds, speeds and durations  *)
(* are exact rationals; config.video_duration is target_duration.          *)
(***************************************************************************)
MaxMoraBlocks == 20

\* moras counted by _estimate_duration, in blocks of twenty
MoraBlock == 20

RatMul(a, b) == Rat(a.num * b.num, a.den * b.den)

RatDiv(a, b) == Rat(a.num * b.den, a.den * b.num)

\* base_duration / speed_scale, with 1 mora = 0.15 seconds
EstimateDuration(query) == RatDiv(Rat(query.moras * 3, 20), query.speedScale)

\* the estimate above which the speed is raised, and the duration aimed at
SpeedUpAbove == 30
SpeedUpTo == 28

\* speed_factor = min(estimated_duration / 28, 2.0)
SpeedFactor(estimated_duration) ==
    RatMin(RatDiv(estimated_duration, Rat(SpeedUpTo, 1)), Rat(2, 1))

\* the speedScale of the query after the adjustment
AdjustedSpeed(query, custom) ==
    IF ~custom /\ RatLess(Rat(SpeedUpAbove, 1), EstimateDuration(query))
    THEN RatMul(query.speedScale, SpeedFactor(EstimateDuration(query)))
    ELSE query.speedScale

\* _synthesize_voice: adjust the speed, post the query
SynthesizeVoice ==
    /\ sy_pc = "_synthesize_voice"
    /\ posted' = AdjustedSpeed(audio_query, sy_custom)
    /\ \E status_ok \in BOOLEAN :
         sy_pc' = IF status_ok THEN "returned" ELSE "raised"
    /\ UNCHANGED <<audio_query, sy_custom, sy_caller, wfvars, vcvars,
                   target_duration, vgvars, stvars, tdvars, ssvars, cavars>>

ConfiguredDurations == {20, 30, 40}

SpeedScales == { Rat(1, 1), Rat(5, 4) }

\* generate_voice(script, is_custom_script=is_custom) of the workflow, or
\* generate_voice(chunk, chunk_filename, is_custom_script=True) of
\* generate_long_voice
InitSynth ==
    /\ WfInitIdle
    /\ VcInitIdle
    /\ VgInitIdle
    /\ StInitIdle
    /\ TdInitIdle
    /\ SsInitIdle
    /\ CaInitIdle
    /\ target_duration \in ConfiguredDurations
    /\ audio_query \in [moras : { MoraBlock * k : k \in 1..MaxMoraBlocks },
                        speedScale : SpeedScales]
    /\ \/ sy_caller = "generate_video" /\ sy_custom \in BOOLEAN
       \/ sy_caller = "generate_long_voice" /\ sy_custom = TRUE
    /\ sy_pc = "_synthesize_voice"
    /\ posted = NoSpeed

NextSynth == SynthesizeVoice

SpecSynth == InitSynth /\ [][NextSynth]_vars

(***************************************************************************)
(* Properties of the workflow.                                             *)
(***************************************************************************)
\* the result dict the invoked method hands back
ReturnedResult == IF entry = GvEntry THEN basic_result ELSE result

GvSteps ==
    {"config_validation", "script_generation", "image_fetching",
     "voice_generation", "video_creation"}

SubtitleSteps == {"subtitle_generation", "subtitle_embedding"}

\* C1: every invocation of generate_video (skip_cleanup false) or of
\* generate_video_with_subtitles that got past theme validation has executed
\* _cleanup_temp_files at least once when it returns or raises, whichever
\* stage failed, and also when none failed.
C1_CleanupAlwaysRuns ==
    (/\ outcome \in {"returned", "RuntimeError"}
     /\ (entry = GvwsEntry \/ ~skip_cleanup))
    => cleanups >= 1

C1_Witness ==
    /\ entry = GvEntry
    /\ ~skip_cleanup
    /\ outcome = "RuntimeError"
    /\ failed_at = "video_creation"
    /\ cleanups >= 1

GvCollaborators ==
    {"config.validate", "script_generator.generate_script",
     "image_fetcher.fetch_images", "voice_generator.generate_voice",
     "video_creator.create_video"}

IsGvCall(c) == c.fn \in GvCollaborators

GvCalls == SelectSeq(calls, IsGvCall)

\* the order the claim states, without the generator for a custom script
StageOrder ==
    IF custom_script # ""
    THEN << "config.validate", "image_fetcher.fetch_images",
            "voice_generator.generate_voice", "video_creator.create_video" >>
    ELSE << "config.validate", "script_generator.generate_script",
            "image_fetcher.fetch_images", "voice_generator.generate_voice",
            "video_creator.create_video" >>

StepOf(fn) ==
    CASE fn = "config.validate" -> "config_validation"
      [] fn = "script_generator.generate_script" -> "script_generation"
      [] fn = "image_fetcher.fetch_images" -> "image_fetching"
      [] fn = "voice_generator.generate_voice" -> "voice_generation"
      [] fn = "video_creator.create_video" -> "video_creation"

\* C2: in generate_video the collaborators are invoked in the order config
\* validation, script generation, image fetch, narration synthesis, video
\* assembly; each at most once; a collaborator is invoked only after every
\* earlier stage succeeded; after the first failure none is invoked.
C2_StrictForwardPipeline ==
    LET g == GvCalls
    IN  /\ Len(g) <= Len(StageOrder)
        /\ \A i \in 1..Len(g) : g[i].fn = StageOrder[i]
        /\ \A i \in 1..(Len(g) - 1) : StepOf(g[i].fn) \in basic_result.steps
        /\ (Len(g) >= 2 /\ custom_script # "")
              => "script_generation" \in basic_result.steps
        /\ failed_at \in GvSteps
              => /\ Len(g) >= 1
                 /\ StepOf(g[Len(g)].fn) = failed_at
                 /\ failed_at \notin basic_result.steps

C2_Witness ==
    /\ custom_script = ""
    /\ outcome = "RuntimeError"
    /\ failed_at = "image_fetching"
    /\ Len(GvCalls) = 3

\* the stages the invocation was asked to run
RequestedStepsDone ==
    /\ GvSteps \subseteq basic_result.steps
    /\ entry = GvwsEntry =>
         /\ SubtitleSteps \subseteq result.steps
         /\ upload_to_youtube => result.youtube_upload = "True"

\* C4 as stated: a result returned with success true means every requested
\* stage, the requested upload included, succeeded, the output path is set
\* and the error list is empty.
C4_SuccessMeansAllRequestedStages ==
    (outcome = "returned" /\ ReturnedResult.success)
    => /\ RequestedStepsDone
       /\ ReturnedResult.output_path # None
       /\ ReturnedResult.errors = <<>>

\* C4 amended: a result returned with success true means every stage through
\* assembly, and for the subtitled workflow subtitle generation and burn-in,
\* succeeded and the output path is set; the error list is empty unless an
\* upload was requested and did not yield a URL, in which case the errors
\* are upload errors only.
C4_SuccessMeansVideoStages ==
    (outcome = "returned" /\ ReturnedResult.success)
    => /\ GvSteps \subseteq basic_result.steps
       /\ entry = GvwsEntry => SubtitleSteps \subseteq result.steps
       /\ ReturnedResult.output_path # None
       /\ failed_at = None
       /\ ReturnedResult.errors # <<>>
            => /\ entry = GvwsEntry
               /\ upload_to_youtube
               /\ result.youtube_url = None
               /\ \A i \in 1..Len(result.errors) :
                    result.errors[i] \in {"youtube_authentication_failed",
                                          "youtube_upload_failed"}

C4_Witness ==
    /\ entry = GvwsEntry
    /\ upload_to_youtube
    /\ outcome = "returned"
    /\ result.success
    /\ result.errors = << "youtube_authentication_failed" >>
    /\ result.output_path = "subtitled_video_path"

IsAuthenticate(c) == c.fn = "youtube_uploader.authenticate"

\* the upload sub-step was entered after the subtitled video was produced
\* and ended without a URL
UploadFailedAfterVideo ==
    /\ pc = "done"
    /\ entry = GvwsEntry
    /\ upload_to_youtube
    /\ "subtitle_embedding" \in result.steps
    /\ Len(SelectSeq(calls, IsAuthenticate)) > 0
    /\ result.youtube_url = None

\* C5: when the upload sub-step fails after the subtitled video was produced
\* (authentication fails, or upload_video is called and yields no URL), the
\* call returns success true with the produced video's path, no youtube_url,
\* and the upload failure recorded separately.
C5_UploadFailureNotFatal ==
    UploadFailedAfterVideo
    => /\ outcome = "returned"
       /\ result.success
       /\ result.output_path = "subtitled_video_path"
       /\ result.youtube_url = None
       /\ (result.errors # <<>> \/ result.youtube_upload = "False")

IsGenerateScript(c) == c.fn = "script_generator.generate_script"

TakesCustomFlag(c) ==
    c.fn \in {"voice_generator.generate_voice", "video_creator.create_video"}

\* C6: a run with a non-empty custom script never invokes the script
\* generator, passes the custom-script flag on the synthesis and the assembly
\* call, and, when no external collaborator fails, completes with success
\* true and a video rendered at the full narration duration.
C6_CustomScriptRunCompletes ==
    custom_script # ""
    => /\ Len(SelectSeq(calls, IsGenerateScript)) = 0
       /\ \A i \in 1..Len(calls) :
            TakesCustomFlag(calls[i]) => calls[i].arg = "True"
       /\ (pc = "done" /\ entry = GvEntry /\ ThemeValid(theme)
           /\ cause # "external")
            => /\ outcome = "returned"
               /\ basic_result.success
               /\ rendered = narration
               /\ narration > 0

(***************************************************************************)
(* Properties of VideoCreator.                                             *)
(***************************************************************************)
ExistingImages == { i \in 1..Len(vc_in.images) : vc_in.images[i] }

SlideCalled == builder.name = "_create_image_slideshow"

\* C3: for narration duration A > 0 and cap C > 0, create_video uses E = A for
\* a custom script and E = min(A, C) otherwise, and that same E is the target
\* duration handed to the visual-track builder and the end of the narration
\* subclip (0..E).
C3_EffectiveDurationUsedTwice ==
    LET A == vc_in.audio
        C == target_duration
        E == IF vc_in.custom THEN A ELSE (IF A <= C THEN A ELSE C)
    IN  vc_in.call = "create_video"
        => /\ builder.name # None => builder.duration = E
           /\ video_clip.strategy # None /\ vc_pc = "done" => audio_trim = E
           /\ audio_trim # 0 => audio_trim = builder.duration

C3_Witness ==
    /\ vc_in.call = "create_video"
    /\ vc_in.custom
    /\ vc_in.audio > target_duration
    /\ vc_pc = "done"
    /\ vc_error = None
    /\ builder.duration = vc_in.audio
    /\ audio_trim = vc_in.audio

\* C7: for every image list with at least one existing file and every target
\* duration D > 0 the track _create_image_slideshow returns lasts exactly D;
\* when the concatenated clips are shorter than D (images were skipped) the
\* last frame is held for exactly D minus the concatenated duration.
C7_SlideshowExactDuration ==
    (SlideCalled /\ ExistingImages # {})
    => LET D == actual_duration
           n == Len(vc_in.images)
           k == Cardinality(ExistingImages)
           segs == video_clip.segments
           last == segs[Len(segs)]
       IN  /\ video_clip.strategy = "slideshow"
           /\ video_clip.duration = [num |-> D, den |-> 1]
           /\ k < n => /\ Len(segs) = k + 1
                       /\ last.still
                       /\ last.image = segs[k].image
                       /\ last.duration.num * n = (n - k) * D * last.duration.den
           /\ k = n => /\ Len(segs) = n
                       /\ \A j \in 1..n : ~segs[j].still

C7_Witness ==
    /\ SlideCalled
    /\ vc_in.images = << TRUE, FALSE, FALSE >>
    /\ actual_duration = 2
    /\ video_clip.strategy = "slideshow"
    /\ Len(video_clip.segments) = 2
    /\ video_clip.segments[2].still
    /\ video_clip.segments[2].duration = [num |-> 4, den |-> 3]

\* the clip _create_video_background selected
SelectedClip == vc_in.videos[SelectVideo(vc_in.videos, 1)].duration

RECURSIVE SumSpans(_)
SumSpans(segs) ==
    IF segs = <<>> THEN 0
    ELSE (segs[1].end - segs[1].start) + SumSpans(Tail(segs))

\* C8: for clip duration d > 0 and target D > 0: if d >= D the background is
\* the first D seconds of the clip; if d < D the loop stops after appending
\* floor(D/d) full copies and, when D - floor(D/d)*d > 0, one partial slice of
\* that length, so every segment is positive and the segments sum to D.
C8_LoopSegmentsSumToTarget ==
    /\ vc_pc = "_loop_video"
         => /\ loop.current_duration <= actual_duration
            /\ loop.current_duration = SumSpans(loop.clips)
            /\ Len(loop.clips) <= loop.current_duration
    /\ video_clip.strategy = "video"
         => LET d == SelectedClip
                D == actual_duration
                q == D \div d
                r == D % d
                segs == video_clip.segments
            IN  /\ d > 0 /\ D > 0
                /\ \A i \in 1..Len(segs) :
                     segs[i].start = 0 /\ segs[i].end > 0
                /\ SumSpans(segs) = D
                /\ video_clip.duration = [num |-> D, den |-> 1]
                /\ d >= D => Len(segs) = 1 /\ segs[1].end = D
                /\ d < D => /\ Len(segs) = q + (IF r > 0 THEN 1 ELSE 0)
                            /\ \A i \in 1..q : segs[i].end = d
                            /\ r > 0 => segs[q + 1].end = r

C8_Witness ==
    /\ video_clip.strategy = "video"
    /\ SelectedClip = 2
    /\ actual_duration = 5
    /\ Len(video_clip.segments) = 3
    /\ video_clip.segments[1].end = 2
    /\ video_clip.segments[2].end = 2
    /\ video_clip.segments[3].end = 1

NoUsableVideo ==
    \/ SelectVideo(vc_in.videos, 1) = 0
    \/ SelectedClip <= 0

\* C9: when create_video gets a non-empty videos list and a non-empty images
\* list and no video asset is usable, the visual track is built as an image
\* slideshow from the images and the run does not fail because of the videos.
C9_FallsBackToImages ==
    (/\ vc_in.call = "create_video"
     /\ vc_pc = "done"
     /\ builder.name # None
     /\ vc_in.videos # <<>>
     /\ vc_in.images # <<>>
     /\ NoUsableVideo)
    => /\ SlideCalled
       /\ vc_error \notin {"No valid video files found", "Invalid video file"}
       /\ ExistingImages # {} => video_clip.strategy = "slideshow"

\* C10: in the slideshow an image whose file is missing is skipped and the
\* remaining images are composed in their original relative order; if no
\* listed image file exists the method fails with the "no valid images"
\* error and returns no track.
C10_MissingImagesSkipped ==
    (SlideCalled /\ Len(vc_in.images) > 0)
    => IF ExistingImages # {}
       THEN LET segs == video_clip.segments
                k == Cardinality(ExistingImages)
            IN  /\ video_clip.strategy = "slideshow"
                /\ Len(segs) >= k
                /\ { segs[j].image : j \in 1..k } = ExistingImages
                /\ \A j \in 1..k : ~segs[j].still
                /\ \A i, j \in 1..k : i < j => segs[i].image < segs[j].image
                /\ vc_error # "No valid images found for slideshow"
       ELSE /\ vc_error = "No valid images found for slideshow"
            /\ video_clip = NoTrack
            /\ vc_pc = "done"

C10_Witness ==
    /\ SlideCalled
    /\ vc_in.images = << TRUE, FALSE, TRUE >>
    /\ video_clip.strategy = "slideshow"
    /\ video_clip.segments[1].image = 1
    /\ video_clip.segments[2].image = 3

(***************************************************************************)
(* Properties of the VoiceGenerator.                                       *)
(***************************************************************************)
\* _split_text_for_voice has returned its chunks
ChunksReturned == vg_pc \in {"generate_voice", "done"} /\ vg_raised # EmptyScript

\* the text has a sentence or clause boundary at least every n characters
BoundaryEvery(text, n) ==
    LET pieces == SplitKeep(text, SentenceMarks \cup ClauseMarks, <<>>)
    IN  \A i \in 1..Len(pieces) : Len(pieces[i]) <= n

\* C11: for a script with a sentence or clause boundary at least every
\* max_chunk_chars characters, no chunk returned by _split_text_for_voice is
\* longer than max_chunk_chars.
C11_ChunksWithinBudget ==
    (ChunksReturned /\ BoundaryEvery(script, max_chunk_chars))
    => \A i \in 1..Len(chunks) : Len(chunks[i]) <= max_chunk_chars

\* text is the chunks cs in order, with nothing but whitespace before, between
\* and after them
RECURSIVE Reassembles(_, _)
Reassembles(text, cs) ==
    IF cs = <<>> THEN Strip(text) = <<>>
    ELSE \E k \in 0..Len(text) :
           /\ Strip(SubSeq(text, 1, k)) = <<>>
           /\ k + Len(Head(cs)) <= Len(text)
           /\ SubSeq(text, k + 1, k + Len(Head(cs))) = Head(cs)
           /\ Reassembles(SubSeq(text, k + Len(Head(cs)) + 1, Len(text)),
                          Tail(cs))

RECURSIVE TotalLen(_)
TotalLen(cs) == IF cs = <<>> THEN 0 ELSE Len(Head(cs)) + TotalLen(Tail(cs))

\* C12: the chunks returned by _split_text_for_voice, concatenated in order,
\* are the script again up to the whitespace stripped at the chunk edges: no
\* character is dropped, duplicated or reordered, the marks stay with their
\* sentence.
C12_ChunksReassemble == ChunksReturned => Reassembles(script, chunks)

C12_Witness ==
    /\ ChunksReturned
    /\ Len(script) > max_chunk_chars
    /\ Len(chunks) >= 2
    /\ TotalLen(chunks) < Len(script)
    /\ \E i \in 1..Len(script) : script[i] \in SentenceMarks
    /\ \E i \in 1..Len(script) : script[i] \in ClauseMarks

\* C13: once generate_voice has failed for a chunk, generate_long_voice has
\* raised, the chunks synthesized are exactly those before the failed one, and
\* no track was combined or returned.
C13_ChunkFailureIsFatal ==
    gv_raised # None
    => /\ vg_pc = "done"
       /\ vg_raised # None
       /\ combined = <<>>
       /\ temp_audio_files = [j \in 1..(gv_failure.chunk - 1) |-> j]

C13_Witness ==
    /\ gv_raised # None
    /\ Len(chunks) >= 3
    /\ gv_failure.chunk = 2
    /\ temp_audio_files = << 1 >>
    /\ vg_raised # None

\* the category of a message raised by _handle_voice_error
VoiceCategory(message) ==
    IF message = NotAccessible THEN "not accessible"
    ELSE IF message = ServerTimeout THEN "timeout"
    ELSE IF message = InvalidSpeaker THEN "speaker"
    ELSE IF Len(message) >= Len(VoiceFailedPrefix)
            /\ SubSeq(message, 1, Len(VoiceFailedPrefix)) = VoiceFailedPrefix
    THEN "failed"
    ELSE "none"

\* C14: the category of the error generate_voice raises follows from the
\* cause: an unreachable engine gives the not-accessible message, a timeout
\* the timeout message, corrupted or empty audio neither of the two, and a
\* failure with another cause is never raised in the same category.
C14_CategoryFollowsCause ==
    gv_raised # None
    => /\ gv_failure.cause = "connectivity" => gv_raised = NotAccessible
       /\ gv_failure.cause = "timeout" => gv_raised = ServerTimeout
       /\ gv_failure.cause = "corruption"
            => gv_raised \notin {NotAccessible, ServerTimeout}
       /\ \A g \in VoiceFailures :
            g.cause # gv_failure.cause
            => VoiceCategory(GenerateVoiceRaises[g]) # VoiceCategory(gv_raised)

(***************************************************************************)
(* Properties of _render_video and of create_video's error paths.          *)
(***************************************************************************)
RenderCalled == render.outcome # "not called"

\* write_videofile returned and left a file of at least MinFileSize bytes
RenderedWell ==
    /\ render.write = NoVideoFailure
    /\ render.written.exists
    /\ render.written.size >= MinFileSize

\* C15 as stated: _render_video returns only if the file exists with at least
\* 1000 bytes after the render call, raises otherwise, and whenever it raises
\* no file is left at the output path.
C15_RenderLeavesNoFile ==
    RenderCalled
    => /\ render.outcome = "returned" <=> RenderedWell
       /\ render.outcome = "returned" => output_file = render.written
       /\ render.outcome = "raised" => ~output_file.exists

\* C15: _render_video returns only if the file exists with at least 1000 bytes
\* after the render call and raises otherwise; when it raises, a file is left
\* at the output path exactly when there was one and its removal failed.
C15_RenderVerified ==
    RenderCalled
    => /\ render.outcome = "returned" <=> RenderedWell
       /\ render.outcome = "returned" => output_file = render.written
       /\ render.outcome = "raised"
            => /\ output_file.exists <=> render.remove_failed
               /\ render.remove_failed => output_file = render.written

C15_Witness ==
    /\ render.outcome = "raised"
    /\ render.write = NoVideoFailure
    /\ render.written.exists
    /\ render.written.size < MinFileSize
    /\ ~output_file.exists
    /\ vc_error = RenderPrefix \o Corrupted

\* C16: when create_video has returned or raised, none of the handles it
\* opened (audio_clip, video_clip, final_clip) is still open.
C16_HandlesClosed ==
    (vc_in.call = "create_video" /\ vc_pc = "done")
    => \A h \in DOMAIN handles : handles[h] # "open"

\* the category of a message raised by _handle_video_error
VideoCategory(message) ==
    IF message = VideoCodecError THEN "codec"
    ELSE IF message = VideoMemoryError THEN "memory"
    ELSE IF message = VideoPermissionError THEN "permission"
    ELSE IF message = VideoDiskError THEN "disk"
    ELSE IF Len(message) >= Len(VideoFailedPrefix)
            /\ SubSeq(message, 1, Len(VideoFailedPrefix)) = VideoFailedPrefix
    THEN "other"
    ELSE "none"

\* every failure that can reach the except clause of create_video
VideoFailures ==
    { [cause |-> "other", message |-> m] : m \in BuilderErrors }
    \cup { [cause |-> f.cause, message |-> RenderPrefix \o f.message] :
             f \in WriteFailures }
    \cup { [cause |-> "other", message |-> RenderPrefix \o NotCreated],
           [cause |-> "other", message |-> RenderPrefix \o Corrupted] }

\* C17: a failure inside create_video after the argument checks ends the call
\* with a RuntimeError whose category is that of the cause (codec, memory,
\* permission, disk, or the generic one), a failure of another kind is never
\* raised in the same category, and the call does not return.
C17_VideoCategoryFollowsCause ==
    (vc_in.call = "create_video" /\ vc_failure.cause # None)
    => /\ vc_pc = "done"
       /\ vc_raised # None
       /\ render.outcome # "returned"
       /\ VideoCategory(vc_raised) = vc_failure.cause
       /\ \A g \in VideoFailures :
            g.cause # vc_failure.cause
            => VideoCategory(CreateVideoRaises[g.message])
               # VideoCategory(vc_raised)

(***************************************************************************)
(* Properties of the subtitle timing.                                      *)
(***************************************************************************)
TimingReturned == st_pc = "done"

CueSpan(cue) == RatSub(cue.end, cue.start)

\* C18: for a non-empty sentence list and T > 0 the cues returned start at 0,
\* each later cue starts where the previous one ends, every cue has
\* start < end <= T, the start times increase strictly, and the last cue ends
\* at T.
C18_CuesContiguousUpToT ==
    (TimingReturned /\ st_sentences # <<>>)
    => LET cues == subtitle_entries
           n == Len(cues)
       IN  /\ n >= 1
           /\ cues[1].start = Rat(0, 1)
           /\ \A i \in 1..(n - 1) : cues[i + 1].start = cues[i].end
           /\ \A i \in 1..n : /\ RatLess(cues[i].start, cues[i].end)
                              /\ ~RatLess(total_duration, cues[i].end)
           /\ \A i \in 1..(n - 1) : RatLess(cues[i].start, cues[i + 1].start)
           /\ cues[n].end = total_duration

C18_Witness ==
    /\ TimingReturned
    /\ Len(subtitle_entries) = 3
    /\ RatLess(Rat(3, 1), total_duration)
    /\ subtitle_entries[2].start = subtitle_entries[1].end
    /\ subtitle_entries[3].end = total_duration

\* C19 as stated: every cue returned spans at least one second.
C19_EveryCueOneSecond ==
    TimingReturned
    => \A i \in 1..Len(subtitle_entries) :
         ~RatLess(CueSpan(subtitle_entries[i]), Rat(MinCueSeconds, 1))

\* C19: every cue returned spans at least one second, except that the last
\* cue, which ends at T, may be shorter.
C19_OneSecondExceptLast ==
    TimingReturned
    => \A i \in 1..Len(subtitle_entries) :
         \/ ~RatLess(CueSpan(subtitle_entries[i]), Rat(MinCueSeconds, 1))
         \/ /\ i = Len(subtitle_entries)
            /\ subtitle_entries[i].end = total_duration

C19_Witness ==
    /\ TimingReturned
    /\ Len(subtitle_entries) = 3
    /\ CueSpan(subtitle_entries[1]) = Rat(1, 1)
    /\ CueSpan(subtitle_entries[2]) = Rat(1, 1)
    /\ CueSpan(subtitle_entries[3]) = Rat(1, 2)

\* C20: the cues returned are one per sentence, in the order of the sentences
\* and with their texts.
C20_OneCuePerSentence ==
    TimingReturned
    => /\ Len(subtitle_entries) = Len(st_sentences)
       /\ \A i \in 1..Len(st_sentences) :
            subtitle_entries[i].text = st_sentences[i]

(***************************************************************************)
(* Properties of workflow runs over one temp directory.                    *)
(***************************************************************************)
\* C21: with two workflow runs interleaved over the same temp directory,
\* every temp file a run's cleanup removes was created by that run.
C21_CleanupRemovesOwnFilesOnly ==
    \A d \in removed : d.file.run = d.by

(***************************************************************************)
(* Properties of _split_text_into_sentences.                               *)
(***************************************************************************)
\* the sentences of one line with the mark that ends each of them in the
\* input; text after the last mark has no mark of its own and gets "."
RECURSIVE MarkedSentences(_)
MarkedSentences(pieces) ==
    IF pieces = <<>> THEN <<>>
    ELSE LET piece == Head(pieces)
             marked == piece # <<>> /\ piece[Len(piece)] \in SentenceMarks
             body == IF marked THEN SubSeq(piece, 1, Len(piece) - 1)
                     ELSE piece
             mark == IF marked THEN << piece[Len(piece)] >> ELSE <<".">>
         IN  IF Strip(body) # <<>>
             THEN << Strip(body) \o mark >> \o MarkedSentences(Tail(pieces))
             ELSE MarkedSentences(Tail(pieces))

RECURSIVE SentencesWithTheirMarks(_)
SentencesWithTheirMarks(ls) ==
    IF ls = <<>> THEN <<>>
    ELSE MarkedSentences(SplitKeep(Head(ls), SentenceMarks, <<>>))
         \o SentencesWithTheirMarks(Tail(ls))

\* C22: _split_text_into_sentences splits on line breaks, then on the
\* sentence marks within each line, drops blank fragments and returns every
\* sentence, in input order, ending with the mark it had in the input.
C22_SentencesKeepTheirMarks ==
    ss_pc = "done"
        => ss_sentences
             = SentencesWithTheirMarks(
                   StrippedNonBlank(ReSplit(ss_text, LineBreak, <<>>)))

(***************************************************************************)
(* Further properties of the VideoCreator.                                 *)
(***************************************************************************)
\* index of the first video whose file exists and whose clip has a
\* duration > 0, or 0
RECURSIVE FirstPlayable(_, _)
FirstPlayable(videos, i) ==
    IF i > Len(videos) THEN 0
    ELSE IF videos[i].exists /\ videos[i].duration > 0 THEN i
    ELSE FirstPlayable(videos, i + 1)

BackgroundCalled == builder.name = "_create_video_background"

\* C23: _create_video_background uses the first video, in list order, whose
\* file exists and whose clip has duration > 0; missing or unplayable
\* candidates before it are passed over, so the call does not fail for want
\* of a video whenever the list holds a playable one.
C23_FirstPlayableVideoUsed ==
    (BackgroundCalled /\ FirstPlayable(vc_in.videos, 1) # 0)
        => /\ vc_error \notin {"No valid video files found",
                               "Invalid video file"}
           /\ SelectVideo(vc_in.videos, 1) = FirstPlayable(vc_in.videos, 1)

IsImageSegment(seg) == ~seg.still

\* the image clips of a slideshow track, without the held last frame
ImageSegments(track) == SelectSeq(track.segments, IsImageSegment)

\* C24: in the slideshow track built for a target D from n listed images
\* every segment but the last carries a fade-out, every segment but the first
\* a fade-in (a single segment has neither) and each segment lasts D/n, also
\* when listed images are skipped because their files are missing.
C24_FadesFollowTrackPosition ==
    video_clip.strategy = "slideshow"
        => LET segs == ImageSegments(video_clip)
           IN  \A k \in 1..Len(segs) :
                   /\ segs[k].fadein <=> k > 1
                   /\ segs[k].fadeout <=> k < Len(segs)
                   /\ segs[k].duration
                        = Rat(builder.duration, Len(vc_in.images))

(***************************************************************************)
(* Properties of _combine_audio_files.                                     *)
(***************************************************************************)
SameFormat ==
    \A i \in 1..Len(audio_files) : audio_files[i].format = audio_files[1].format

RECURSIVE FramesBefore(_)
\* the frames of the files in front of the i-th one
FramesBefore(i) ==
    IF i <= 1 THEN 0 ELSE audio_files[i - 1].frames + FramesBefore(i - 1)

\* where the frames of the i-th chunk start in a track that has one gap of
\* gap frames behind each of the chunks before it
ChunkOffset(i, gap) == FramesBefore(i) + (i - 1) * gap

\* C25: for N chunk files of one format the combined narration holds the
\* chunks' audio in chunk order with exactly N-1 gaps of 0.2 s of silence,
\* one between each adjacent pair, none before the first or after the last
\* chunk: its frame count is the sum of the chunks' frame counts plus N-1
\* times the silence frame count, and for N = 1 it is the chunk unchanged.
C25_ChunksInOrderWithGaps ==
    (ca_pc = "done" /\ audio_files # <<>> /\ SameFormat)
        => LET N == Len(audio_files)
               gap == audio_files[1].format.rate \div 5
               data == output_wav.data
           IN  /\ ca_raised = None
               /\ output_wav.exists
               /\ output_wav.format = audio_files[1].format
               /\ Len(data) = FramesBefore(N + 1) + (N - 1) * gap
               /\ \A i \in 1..N : \A k \in 1..audio_files[i].frames :
                      data[ChunkOffset(i, gap) + k] = i
               /\ \A i \in 1..(N - 1) : \A k \in 1..gap :
                      data[ChunkOffset(i, gap) + audio_files[i].frames + k] = 0
               /\ N = 1 => data = ChunkData(1)

C25_Witness ==
    /\ ca_pc = "done"
    /\ Len(audio_files) = 3
    /\ SameFormat
    /\ audio_files[1].format.rate = 10
    /\ output_wav.data = <<1, 0, 0, 2, 2, 0, 0, 3>>

\* C26: the format check of all chunks is completed before any audio is
\* written: when a chunk's format differs from the first chunk's,
\* _combine_audio_files fails, and no partially written combined file is
\* left at the output path.
C26_NoPartialOutput ==
    (ca_pc = "done" /\ audio_files # <<>> /\ ~SameFormat)
        => /\ ca_raised = CombineFailed
           /\ ~output_wav.exists

(***************************************************************************)
(* Properties of _synthesize_voice.                                        *)
(***************************************************************************)
Synthesized == sy_pc \in {"returned", "raised"}

\* C27: for a non-custom script the speed sent to the engine is the query's
\* speed times a factor greater than 1 and at most 2 whenever the estimated
\* duration exceeds the configured duration cap, and the query's speed
\* otherwise; for a custom script and for every chunk of generate_long_voice
\* it is the query's speed.
C27_SpeedFollowsConfiguredCap ==
    Synthesized
        => IF ~sy_custom
              /\ RatLess(Rat(target_duration, 1), EstimateDuration(audio_query))
           THEN /\ RatLess(audio_query.speedScale, posted)
                /\ ~RatLess(RatMul(audio_query.speedScale, Rat(2, 1)), posted)
           ELSE posted = audio_query.speedScale

(***************************************************************************)
(* Further properties of the workflow.                                     *)
(***************************************************************************)
NonDecreasing(ps) == \A i \in 1..(Len(ps) - 1) : ps[i] <= ps[i + 1]

Deliveries(ps, percent) == { i \in 1..Len(ps) : ps[i] = percent }

RunSucceeded == pc = "done" /\ outcome = "returned" /\ ReturnedResult.success

\* C28: within one workflow run the percents delivered to the progress sink
\* never decrease, and 100 is delivered at most once: as the last event of a
\* successful run, and never in a run that fails.
C28_ProgressMonotonic ==
    /\ NonDecreasing(progress)
    /\ Cardinality(Deliveries(progress, 100)) <= 1
    /\ Deliveries(progress, 100) # {}
         => RunSucceeded /\ progress[Len(progress)] = 100

\* the stages of generate_video_with_subtitles that follow the nested
\* generate_video
AfterBasicVideo ==
    {"subtitle_generation", "subtitle_embedding", "youtube_upload", "finalize"}

\* C29: in generate_video_with_subtitles the narration file is still there
\* when subtitle generation reads it, no cleanup has run while the subtitle,
\* burn-in and upload stages are still to finish, and neither the rendered
\* base video nor the subtitled output is ever removed by a cleanup.
C29_OutputsSurviveCleanup ==
    entry = GvwsEntry =>
        /\ pc = "subtitle_generation" => VoiceFile \in saved_files
        /\ pc \in AfterBasicVideo => cleanups = 0
        /\ "video_creation" \in basic_result.steps
            => BaseVideoFile \in saved_files
        /\ "subtitle_embedding" \in result.steps
            => SubtitledVideoFile \in saved_files

(***************************************************************************)
(* Properties of the caption file of a workflow run.                       *)
(***************************************************************************)
\* C30: in every successful generate_video_with_subtitles run each cue
\* written to the caption file ends no later than the effective duration of
\* the rendered video, also when the narration of a non-custom run is longer
\* than the configured cap.
C30_CuesEndWithinVideo ==
    (entry = GvwsEntry /\ RunSucceeded)
        => \A i \in 1..Len(srt_cues) :
               ~RatLess(Rat(rendered, 1), srt_cues[i].end)
====
